---- MODULE Spec2Model ----
(***************************************************************************)
(* A model of amplifier-bundle-python-dev: the CheckResult data model      *)
(* (models.py), the aggregator and its runners (checker.py), the command   *)
(* line entry point (cli.py) and the post-tool hook with its per-file      *)
(* state tracker (hooks-python-check/__init__.py).                         *)
(***************************************************************************)
EXTENDS Integers, Sequences, FiniteSets, TLC

VARIABLES
    \* ---- CheckResult properties (models.py) ----
    res,          \* a CheckResult under inspection
    code,         \* the value its exit_code property returned, or None
    \* ---- CheckResult.merge (models.py) ----
    ra, rb, rc,   \* three CheckResults
    merged,       \* the results of merging them, or None
    \* ---- PythonChecker (checker.py) ----
    checker_config, \* self.config: the enable flags of the CheckConfig
    host,         \* which of interpreter, ruff and pyright can be run
    given,        \* the arguments of the check_files call, or None
    runner_calls, \* the runner calls check_files made, in order
    check_result, \* the CheckResult check_files returned, or None
    \* ---- the command line process (cli.py) ----
    settings,     \* the project configuration section and os.environ
    argv,         \* the paths and flags main was started with, or None
    found,        \* the CheckResult check_files returned to main, or None
    echoed,       \* what main printed, or None
    exit_status,  \* the status main passed to sys.exit, or None
    \* ---- the hook (hooks-python-check) ----
    hooks,        \* the PythonCheckHooks instance's configuration
    file_states,  \* self._file_states: resolved path -> FileCheckState
    hook_result,  \* the HookResult of the last handle_tool_post, or None
    last_event,   \* the last event's data and, if it ran a check, what it saw
    update_log,   \* per resolved path, each FileCheckState.update call made
    \* ---- one call of a function or method on its own ----
    fn_args,      \* the arguments of the call
    fn_result,    \* what the call returned or raised, or None before it
    scratch_files \* the temporary files that exist

resultVars == <<res, code>>
mergeVars == <<ra, rb, rc, merged>>
checkerVars == <<checker_config, host, given, runner_calls, check_result>>
cliVars == <<settings, argv, found, echoed, exit_status>>
hookVars == <<hooks, file_states, hook_result, last_event, update_log>>
callVars == <<fn_args, fn_result, scratch_files>>
vars == <<res, code, ra, rb, rc, merged,
         checker_config, host, given, runner_calls, check_result,
         settings, argv, found, echoed, exit_status,
         hooks, file_states, hook_result, last_event, update_log,
         fn_args, fn_result, scratch_files>>

\* Python's None, and a value that is present: a sequence of length 0 or 1.
None == <<>>
Some(x) == <<x>>

\* dict.get(key, default)
Get(dict, key, default) == IF key \in DOMAIN dict THEN dict[key] ELSE default

(***************************************************************************)
(* Bounds of the model.                                                    *)
(***************************************************************************)
MaxIssues == 3        \* longest issue list drawn for a single CheckResult
MaxMergeIssues == 1   \* longest issue list of each operand of a merge
MaxFiles == 1         \* largest files_checked drawn for an operand of a merge
MaxPaths == 3         \* longest path list given to check_files
MaxCliPaths == 1      \* longest path list given on the command line
MaxChecks == 2        \* checks one hook instance runs, over all files
MaxLines == 4         \* most lines of a file scanned for stubs

(***************************************************************************)
(* models.py: Severity, Issue                                              *)
(***************************************************************************)
ERROR == "error"
WARNING == "warning"
INFO == "info"
Severity == {ERROR, WARNING, INFO}

\* message is the sequence of the pieces its f-string is built from; the
\* optional suggestion and end position are carried by no modelled operation.
Issue(file, line, column, cd, message, severity, source) ==
    [file |-> file, line |-> line, column |-> column, code |-> cd,
     message |-> message, severity |-> severity, source |-> source]

(***************************************************************************)
(* models.py: CheckResult.  checks_run is built by list(set(...)) in       *)
(* merge, so its order is unspecified; the model keeps the set of names.   *)
(***************************************************************************)
CheckResult(issues, files_checked, checks_run) ==
    [issues |-> issues, files_checked |-> files_checked, checks_run |-> checks_run]

CountSeverity(issues, sev) ==
    Len(SelectSeq(issues, LAMBDA i : i.severity = sev))

error_count(r) == CountSeverity(r.issues, ERROR)
warning_count(r) == CountSeverity(r.issues, WARNING)
info_count(r) == CountSeverity(r.issues, INFO)

exit_code_first_issue(r) ==
    IF r.issues = <<>> THEN 0
    ELSE IF r.issues[1].severity = ERROR THEN 2
    ELSE IF r.issues[1].severity = WARNING THEN 1
    ELSE 0

exit_code(r) ==
    IF error_count(r) > 0 THEN 2
    ELSE IF warning_count(r) > 0 THEN 1
    ELSE 0

success(r) == error_count(r) = 0

clean(r) == Len(r.issues) = 0

Max(a, b) == IF a >= b THEN a ELSE b
Min(a, b) == IF a <= b THEN a ELSE b

SeqsUpTo(S, n) == UNION {[1..k -> S] : k \in 0..n}

merge_sum_files(self, other) ==
    CheckResult(self.issues \o other.issues,
                self.files_checked + other.files_checked,
                self.checks_run \cup other.checks_run)

merge_other_first(self, other) ==
    CheckResult(other.issues \o self.issues,
                Max(self.files_checked, other.files_checked),
                self.checks_run \cup other.checks_run)

merge(self, other) ==
    CheckResult(self.issues \o other.issues,
                Max(self.files_checked, other.files_checked),
                self.checks_run \cup other.checks_run)

(***************************************************************************)
(* The file system the checker looks at (pathlib.Path queries).            *)
(***************************************************************************)
cwd == "."
Dirs == {"c", "."}
RegularFiles == {"a.py", "b.ts", "d.pyi", "c/m.py", "c/s.pyi", "build/g.py"}

\* Other names of a.py: its absolute path, a path through c and back, and a
\* symbolic link to it in another directory.
OtherNames == {"/w/a.py", "c/../a.py", "/l/a.py"}

\* str(Path(p)): pathlib drops a leading "./"
path_str(p) == IF p = "./a.py" THEN "a.py" ELSE p

is_dir(path) == path \in Dirs
\* tempfile.NamedTemporaryFile(suffix=".py", delete=False).name: the scratch
\* file of check_content, which is there whenever check_files asks about it.
temp_path == "/tmp/tmpk3.py"

is_file(path) == path \in RegularFiles \cup OtherNames \cup {temp_path}

suffix(path) ==
    CASE path \in {"a.py", "c/m.py", "build/g.py", temp_path} \cup OtherNames -> ".py"
      [] path \in {"d.pyi", "c/s.pyi"} -> ".pyi"
      [] path = "b.ts" -> ".ts"
      [] OTHER -> ""

\* path.rglob("*.py"): the .py files below a directory.
rglob_py(path) ==
    CASE path = "c" -> <<"c/m.py">>
      [] path = "." -> <<"a.py", "build/g.py", "c/m.py">>
      [] OTHER -> <<>>

(***************************************************************************)
(* Text helpers: str(int) as its decimal digits, ', '.join(...)            *)
(***************************************************************************)
Digit(d) ==
    CASE d = 0 -> "0" [] d = 1 -> "1" [] d = 2 -> "2" [] d = 3 -> "3"
      [] d = 4 -> "4" [] d = 5 -> "5" [] d = 6 -> "6" [] d = 7 -> "7"
      [] d = 8 -> "8" [] d = 9 -> "9"

RECURSIVE Str(_)
Str(n) == IF n < 10 THEN <<Digit(n)>> ELSE Str(n \div 10) \o <<Digit(n % 10)>>

RECURSIVE Join(_, _)
Join(parts, sep) ==
    IF Len(parts) = 0 THEN <<>>
    ELSE IF Len(parts) = 1 THEN <<parts[1]>>
    ELSE <<parts[1], sep>> \o Join(Tail(parts), sep)

(***************************************************************************)
(* checker.py: launching a tool as [sys.executable, "-m", module, ...].    *)
(* env.interp says whether sys.executable can be found; env.ruff and       *)
(* env.pyright say whether the module is installed for that interpreter.   *)
(* subprocess.run raises FileNotFoundError only for a missing cmd[0]; a    *)
(* missing module makes the interpreter exit with status 1, "No module     *)
(* named ..." on stderr and nothing on stdout.                             *)
(***************************************************************************)
Completed(returncode, stdout) ==
    [exc |-> "", returncode |-> returncode, stdout |-> stdout]

Raised(exc) == [exc |-> exc, returncode |-> 0, stdout |-> [kind |-> "empty"]]

subprocess_run(env, module, toolrun) ==
    IF env.interp = "missing" THEN Raised("FileNotFoundError")
    ELSE IF ~env[module] THEN Completed(1, [kind |-> "empty"])
    ELSE toolrun

\* A call that raises exc instead of returning, and the test for one.
Raises(exc) == [raises |-> exc]
IsRaise(r) == "raises" \in DOMAIN r

\* json.loads(stdout) of a tool's stdout that is a JSON document: a list of
\* items, an object (a function on its keys), or null.  An item that is not
\* an object is the record NonObject.
JsonList(items) == [kind |-> "json", shape |-> "list", value |-> items]
JsonDict(fields) == [kind |-> "json", shape |-> "dict", value |-> fields]
JsonNull == [kind |-> "json", shape |-> "null", value |-> <<>>]
NonObject == [json |-> "string"]
IsObject(item) == "json" \notin DOMAIN item

TOOL_NOT_FOUND(message, source) ==
    Issue("", 0, 0, "TOOL-NOT-FOUND", message, ERROR, source)

(***************************************************************************)
(* checker.py: _run_ruff_format.  stdout is [kind |-> "empty"] or          *)
(* [kind |-> "text", lines |-> ...], each line a sequence of pieces, the   *)
(* first being its first four characters.                                  *)
(***************************************************************************)
StdoutLines(stdout) == IF stdout.kind = "text" THEN stdout.lines ELSE <<>>

\* line[4:].strip() with a leading "a/" removed
DiffHeaderFile(line) ==
    LET rest == Tail(line)
    IN IF rest # <<>> /\ Head(rest) = "a/" THEN Tail(rest) ELSE rest

FORMAT_ISSUE(current_file) ==
    Issue(current_file[1], 1, 1, "FORMAT", <<"File would be reformatted">>,
          WARNING, "ruff-format")

\* The loop over result.stdout.split("\n"): current_file is None or a name.
RECURSIVE ParseFormatDiff(_, _)
ParseFormatDiff(lines, current_file) ==
    IF lines = <<>> THEN <<>>
    ELSE LET line == Head(lines)
         IN IF line # <<>> /\ Head(line) = "--- "
            THEN ParseFormatDiff(Tail(lines), DiffHeaderFile(line))
            ELSE IF line # <<>> /\ Head(line) = "+++ " /\ current_file # <<>>
            THEN <<FORMAT_ISSUE(current_file)>> \o ParseFormatDiff(Tail(lines), None)
            ELSE ParseFormatDiff(Tail(lines), current_file)

_run_ruff_format(env, paths, fix, toolrun) ==
    LET result == subprocess_run(env, "ruff", toolrun)
    IN IF result.exc = "FileNotFoundError"
       THEN CheckResult(
              <<TOOL_NOT_FOUND(<<"ruff not found. Install with: uv add ruff">>, "ruff-format")>>,
              0, {"ruff-format"})
       ELSE CheckResult(
              IF result.returncode # 0 /\ ~fix
              THEN ParseFormatDiff(StdoutLines(result.stdout), None)
              ELSE <<>>,
              0, {"ruff-format"})

(***************************************************************************)
(* checker.py: _run_ruff_lint.  stdout is empty, text that is not JSON, or *)
(* a JSON document.  Only json.JSONDecodeError is caught: a document that  *)
(* is not a list of objects makes the loop over it raise.                  *)
(***************************************************************************)
\* code.startswith("E") or code.startswith("F"), by the code's first letter
FirstChar(cd) ==
    CASE cd \in {"E501", "E711"} -> "E"
      [] cd \in {"F401", "F841"} -> "F"
      [] cd \in {"W291"} -> "W"
      [] cd \in {"B006"} -> "B"
      [] OTHER -> ""

LintSeverity(cd) ==
    IF FirstChar(cd) = "E" \/ FirstChar(cd) = "F" THEN ERROR ELSE WARNING

LintIssue(item) ==
    Issue(item.filename, item.location.row, item.location.column, item.code,
          item.message, LintSeverity(item.code), "ruff-lint")

\* for item in ruff_issues: ... item.get(...) ...
LintParsed(stdout) ==
    IF stdout.shape = "null" THEN Raises("TypeError")
    ELSE IF stdout.shape = "dict"
    THEN IF DOMAIN stdout.value = {} THEN CheckResult(<<>>, 0, {"ruff-lint"})
         ELSE Raises("AttributeError")
    ELSE IF \E k \in 1..Len(stdout.value) : ~IsObject(stdout.value[k])
    THEN Raises("AttributeError")
    ELSE CheckResult([k \in 1..Len(stdout.value) |-> LintIssue(stdout.value[k])],
                     0, {"ruff-lint"})

_run_ruff_lint(env, paths, fix, toolrun) ==
    LET result == subprocess_run(env, "ruff", toolrun)
    IN IF result.exc = "FileNotFoundError"
       THEN CheckResult(
              <<TOOL_NOT_FOUND(<<"ruff not found. Install with: uv add ruff">>, "ruff-lint")>>,
              0, {"ruff-lint"})
       ELSE IF result.stdout.kind = "json"
       THEN LintParsed(result.stdout)
       ELSE CheckResult(<<>>, 0, {"ruff-lint"})

(***************************************************************************)
(* checker.py: _run_pyright.  stdout is empty, text that is not JSON, or   *)
(* a JSON document; again only json.JSONDecodeError is caught.             *)
(***************************************************************************)
severity_map(name) ==
    CASE name = "error" -> ERROR
      [] name = "warning" -> WARNING
      [] name = "information" -> INFO
      [] OTHER -> ERROR

\* As PyrightIssue, but keeping the tool's zero-based position.
PyrightIssue_zero_based(diag) ==
    Issue(diag.file, diag.range.start.line, diag.range.start.character,
          diag.rule, diag.message, severity_map(diag.severity), "pyright")

PyrightIssue(diag) ==
    Issue(diag.file, diag.range.start.line + 1, diag.range.start.character + 1,
          diag.rule, diag.message, severity_map(diag.severity), "pyright")

\* for diag in pyright_output.get("generalDiagnostics", []): ... diag.get(...) ...
PyrightParsed(stdout) ==
    IF stdout.shape # "dict" THEN Raises("AttributeError")
    ELSE LET diags == Get(stdout.value, "generalDiagnostics", <<>>)
         IN IF \E k \in 1..Len(diags) : ~IsObject(diags[k])
            THEN Raises("AttributeError")
            ELSE CheckResult([k \in 1..Len(diags) |-> PyrightIssue(diags[k])],
                             0, {"pyright"})

_run_pyright(env, paths, toolrun) ==
    LET result == subprocess_run(env, "pyright", toolrun)
    IN IF result.exc = "FileNotFoundError"
       THEN CheckResult(
              <<TOOL_NOT_FOUND(<<"pyright not found. Install with: uv add pyright">>, "pyright")>>,
              0, {"pyright"})
       ELSE IF result.stdout.kind = "json"
       THEN PyrightParsed(result.stdout)
       ELSE CheckResult(<<>>, 0, {"pyright"})

(***************************************************************************)
(* checker.py: the stub scanner.  A file's text is a sequence of lines;    *)
(* substring tests and regular-expression searches are tables over the     *)
(* lines and paths of the model.                                           *)
(***************************************************************************)
stub_patterns ==
    << <<"\\bTODO\\b", "TODO comment">>,
       <<"\\bFIXME\\b", "FIXME comment">>,
       <<"\\bXXX\\b", "XXX marker">>,
       <<"raise\\s+NotImplementedError\\b", "NotImplementedError">>,
       <<"return\\s+[\"']not\\s+implemented", "Not implemented return">>,
       <<"#.*coming\\s+soon", "Coming soon comment">> >>

\* re.search(pattern, line, re.IGNORECASE)
re_search(pattern, line) ==
    \/ pattern = "\\bTODO\\b" /\ line \in {"# TODO: finish", "    pass  # todo"}
    \/ pattern = "raise\\s+NotImplementedError\\b"
         /\ line \in {"        raise NotImplementedError"}

\* needle in text
Contains(text, needle) ==
    \/ needle = "NotImplementedError" /\ text \in {"        raise NotImplementedError"}
    \/ needle = "Error" /\ text \in {"        raise NotImplementedError"}
    \/ needle = "@abstractmethod" /\ text \in {"    @abstractmethod"}
    \/ needle = "@abc.abstractmethod" /\ text \in {"    @abc.abstractmethod"}
    \/ needle = "test" /\ text \in {"test_a.py"}
    \/ needle = "pass" /\ text \in {"    pass  # todo"}
    \/ needle = "build" /\ text \in {"build/g.py"}

\* line.strip()
strip(line) ==
    CASE line = "        raise NotImplementedError" -> "raise NotImplementedError"
      [] line = "    @abstractmethod" -> "@abstractmethod"
      [] line = "    @abc.abstractmethod" -> "@abc.abstractmethod"
      [] line = "    def run(self):" -> "def run(self):"
      [] line = "    pass  # todo" -> "pass  # todo"
      [] OTHER -> line

path_name(path) ==
    CASE path \in OtherNames -> "a.py"
      [] path = "c/m.py" -> "m.py"
      [] path = "c/s.pyi" -> "s.pyi"
      [] path = "build/g.py" -> "g.py"
      [] OTHER -> path

exclude_patterns ==
    <<".venv/**", "__pycache__/**", "*.egg-info/**", ".git/**",
      "node_modules/**", "build/**", "dist/**">>

\* pattern[:-3] of a pattern that ends with "/**"
DirPattern(pattern) ==
    CASE pattern = ".venv/**" -> ".venv"
      [] pattern = "__pycache__/**" -> "__pycache__"
      [] pattern = "*.egg-info/**" -> "*.egg-info"
      [] pattern = ".git/**" -> ".git"
      [] pattern = "node_modules/**" -> "node_modules"
      [] pattern = "build/**" -> "build"
      [] pattern = "dist/**" -> "dist"

_should_exclude(path) ==
    \E k \in 1..Len(exclude_patterns) : Contains(path, DirPattern(exclude_patterns[k]))

\* range(max(0, line_num - back), line_num), as 1-based indexes of lines
LinesBack(line_num, back) == Max(1, line_num - back + 1)..line_num

_is_legitimate_pattern(file_path, line_num, line, lines) ==
    \/ Contains(file_path, "test")
    \/ path_name(file_path) = "__init__.py" /\ strip(line) \in {"", "pass"}
    \/ /\ Contains(line, "NotImplementedError")
       /\ \E i \in LinesBack(line_num, 3) :
             Contains(lines[i], "@abstractmethod") \/ Contains(lines[i], "@abc.abstractmethod")
    \/ /\ strip(line) = "pass"
       /\ \E i \in LinesBack(line_num, 5) :
             Contains(lines[i], "class")
               /\ (Contains(lines[i], "Error") \/ Contains(lines[i], "Exception"))
    \/ /\ Contains(line, "pass")
       /\ \E i \in LinesBack(line_num, 3) :
             \/ Contains(lines[i], "@click.group") \/ Contains(lines[i], "@cli.group")
             \/ Contains(lines[i], "@click.command") \/ Contains(lines[i], "@cli.command")
    \/ /\ strip(line) \in {"pass", "..."}
       /\ \E i \in 1..Len(lines) : i <= 50 /\ Contains(lines[i], "Protocol")

RECURSIVE Flatten(_)
Flatten(seqs) == IF seqs = <<>> THEN <<>> ELSE Head(seqs) \o Flatten(Tail(seqs))

STUB_ISSUE(file_path, line_num, line, description) ==
    Issue(file_path, line_num, 1, "STUB", <<description, ": ", strip(line)>>,
          WARNING, "stub-check")

\* The issues of one line: one for each pattern that matches it, in order.
StubIssuesOfLine(file_path, line_num, lines) ==
    LET hit(k) == /\ re_search(stub_patterns[k][1], lines[line_num])
                  /\ ~_is_legitimate_pattern(file_path, line_num, lines[line_num], lines)
    IN Flatten([k \in 1..Len(stub_patterns) |->
                  IF hit(k)
                  THEN <<STUB_ISSUE(file_path, line_num, lines[line_num], stub_patterns[k][2])>>
                  ELSE <<>>])

\* src[file_path] is the file's lines, or None when it cannot be read.
_check_file_for_stubs(file_path, src) ==
    IF src[file_path] = None THEN <<>>
    ELSE LET lines == src[file_path][1]
         IN Flatten([n \in 1..Len(lines) |-> StubIssuesOfLine(file_path, n, lines)])

StubIssuesOfPath(path, src) ==
    IF is_file(path) /\ suffix(path) = ".py" THEN _check_file_for_stubs(path, src)
    ELSE IF is_dir(path)
    THEN LET py_files == rglob_py(path)
         IN Flatten([k \in 1..Len(py_files) |->
                       IF _should_exclude(py_files[k]) THEN <<>>
                       ELSE _check_file_for_stubs(py_files[k], src)])
    ELSE <<>>

_run_stub_check(paths, src) ==
    CheckResult(Flatten([k \in 1..Len(paths) |-> StubIssuesOfPath(paths[k], src)]),
                0, {"stub-check"})

(***************************************************************************)
(* checker.py: _count_python_files and check_files.                        *)
(***************************************************************************)
RECURSIVE SumSeq(_)
SumSeq(ns) == IF ns = <<>> THEN 0 ELSE Head(ns) + SumSeq(Tail(ns))

_count_python_files(paths) ==
    SumSeq([k \in 1..Len(paths) |->
              IF is_file(paths[k]) /\ suffix(paths[k]) = ".py" THEN 1
              ELSE IF is_dir(paths[k]) THEN Len(rglob_py(paths[k]))
              ELSE 0])

python_extensions == {".py", ".pyi"}

InScope_unfiltered(path) == TRUE

InScope(path) == is_dir(path) \/ suffix(path) \in python_extensions

NonPythonOnly(skipped_files) ==
    Issue("", 0, 0, "NON-PYTHON",
          <<"No Python files to check. ", "Skipped ">> \o Str(Len(skipped_files))
            \o <<" non-Python file(s): ">> \o Join(skipped_files, ", ")
            \o <<". ", "python_check only supports .py and .pyi files.">>,
          INFO, "python-check")

NonPythonSkipped(skipped_files) ==
    Issue("", 0, 0, "NON-PYTHON",
          <<"Skipped ">> \o Str(Len(skipped_files))
            \o <<" non-Python file(s): ">> \o Join(skipped_files, ", "),
          INFO, "python-check")

Call(runner, paths, fix, returned) ==
    [runner |-> runner, paths |-> paths, fix |-> fix, returned |-> returned]

\* As MergeAll, but the runner called last is merged first.
RECURSIVE MergeAll_last_first(_, _)
MergeAll_last_first(results, calls) ==
    IF calls = <<>> THEN results
    ELSE MergeAll_last_first(merge(results, calls[Len(calls)].returned),
                             SubSeq(calls, 1, Len(calls) - 1))

\* results = results.merge(...) for each runner that was called, in order
RECURSIVE MergeAll(_, _)
MergeAll(results, calls) ==
    IF calls = <<>> THEN results
    ELSE MergeAll(merge(results, Head(calls).returned), Tail(calls))

\* config: the four enable flags.  runs: what each tool prints if it runs.
\* The value is the CheckResult returned and the runner calls made, in order;
\* a runner that raises ends the call, which then raises the same exception.
check_files(config, env, given_paths, fix, runs, src) ==
    LET given_or_cwd == IF given_paths = <<>> THEN <<cwd>> ELSE given_paths
        paths == [k \in 1..Len(given_or_cwd) |-> path_str(given_or_cwd[k])]
        valid_paths == SelectSeq(paths, InScope)
        skipped_files == SelectSeq(paths, LAMBDA q : ~InScope(q))
        results == CheckResult(IF skipped_files # <<>>
                               THEN <<NonPythonSkipped(skipped_files)>> ELSE <<>>,
                               _count_python_files(valid_paths), {})
        attempted ==
             (IF config.enable_ruff_format
              THEN <<Call("ruff-format", valid_paths, fix,
                          _run_ruff_format(env, valid_paths, fix, runs.format))>>
              ELSE <<>>)
          \o (IF config.enable_ruff_lint
              THEN <<Call("ruff-lint", valid_paths, fix,
                          _run_ruff_lint(env, valid_paths, fix, runs.lint))>>
              ELSE <<>>)
          \o (IF config.enable_pyright
              THEN <<Call("pyright", valid_paths, FALSE,
                          _run_pyright(env, valid_paths, runs.types))>>
              ELSE <<>>)
          \o (IF config.enable_stub_check
              THEN <<Call("stub-check", valid_paths, FALSE,
                          _run_stub_check(valid_paths, src))>>
              ELSE <<>>)
        raising == {k \in 1..Len(attempted) : IsRaise(attempted[k].returned)}
        first_raising == CHOOSE k \in raising : \A j \in raising : k <= j
    IN IF valid_paths = <<>>
       THEN [result |-> CheckResult(<<NonPythonOnly(skipped_files)>>, 0, {}),
             calls |-> <<>>]
       ELSE IF raising # {}
       THEN [result |-> attempted[first_raising].returned,
             calls |-> SubSeq(attempted, 1, first_raising)]
       ELSE [result |-> MergeAll(results, attempted), calls |-> attempted]

(***************************************************************************)
(* Inputs of the checker: configurations, environments, tool outputs and   *)
(* file contents.                                                          *)
(***************************************************************************)
Configs ==
    [enable_ruff_format : BOOLEAN, enable_ruff_lint : BOOLEAN,
     enable_pyright : BOOLEAN, enable_stub_check : BOOLEAN]

\* With no interpreter to launch, whether a module is installed shows nowhere.
Envs ==
    [interp : {"ok"}, ruff : BOOLEAN, pyright : BOOLEAN]
      \cup {[interp |-> "missing", ruff |-> TRUE, pyright |-> TRUE]}

PathPool == {"a.py", "b.ts", "c", "d.pyi"}

\* The lists of at most n different paths.
PathLists(n) ==
    { ps \in SeqsUpTo(PathPool, n) :
        \A i, j \in 1..Len(ps) : i # j => ps[i] # ps[j] }

FormatRuns ==
    { Completed(0, [kind |-> "empty"]),
      Completed(1, [kind |-> "text",
                    lines |-> << <<"--- ", "a.py">>, <<"+++ ", "a.py">>,
                                 <<"@@ -", "1 +1 @@">> >>]) }

LintItem(cd, row, column) ==
    [code |-> cd, filename |-> "a.py", message |-> <<"lint finding">>,
     location |-> [row |-> row, column |-> column]]

LintRuns ==
    { Completed(0, JsonList(<<>>)),
      Completed(1, JsonList(<<LintItem("E501", 3, 1)>>)),
      Completed(2, [kind |-> "text", lines |-> << <<"erro", "r: bad option">> >>]) }

Diagnostic(severity, line, character) ==
    [file |-> "a.py", severity |-> severity, rule |-> "reportGeneralTypeIssues",
     message |-> <<"type finding">>,
     range |-> [start |-> [line |-> line, character |-> character]]]

TypeRuns ==
    { Completed(0, JsonDict([generalDiagnostics |-> <<>>])),
      Completed(1, JsonDict([generalDiagnostics |-> <<Diagnostic("error", 0, 0)>>])),
      Completed(0, JsonDict([generalDiagnostics |-> <<Diagnostic("information", 9, 4)>>])) }

ToolRuns == [format : FormatRuns, lint : LintRuns, types : TypeRuns]

PyFiles == {"a.py", "c/m.py", "build/g.py"} \cup OtherNames

Sources ==
    { [f \in PyFiles |-> Some(<<"x = 1">>)],
      [f \in PyFiles |-> IF f = "c/m.py" THEN Some(<<"x = 1">>)
                         ELSE Some(<<"x = 1", "# TODO: finish">>)] }

(***************************************************************************)
(* A PythonChecker and one call of its check_files.                        *)
(***************************************************************************)
InitChecker ==
    /\ checker_config \in Configs
    /\ host \in Envs
    /\ given = None
    /\ runner_calls = <<>>
    /\ check_result = None

CheckFiles ==
    /\ check_result = None
    /\ \E paths \in PathLists(MaxPaths), fix \in BOOLEAN,
          runs \in ToolRuns, src \in Sources :
          LET done == check_files(checker_config, host, paths, fix, runs, src)
          IN /\ given' = Some([paths |-> paths, fix |-> fix])
             /\ runner_calls' = done.calls
             /\ check_result' = Some(done.result)
    /\ UNCHANGED <<checker_config, host>>
    /\ UNCHANGED <<resultVars, mergeVars, cliVars, hookVars>>
    /\ UNCHANGED callVars

(***************************************************************************)
(* One call of the lint runner or of the type-check runner, on any stdout  *)
(* the tool may leave: nothing, text that is not JSON, and JSON documents  *)
(* of the expected and of other shapes.                                    *)
(***************************************************************************)
LintOutputs ==
    LintRuns \cup
    { Completed(1, JsonList(<<LintItem("W291", 2, 7), LintItem("F401", 1, 1)>>)),
      Completed(0, JsonNull),
      Completed(0, JsonDict(<<>>)),
      Completed(2, JsonDict([error |-> "unknown rule"])),
      Completed(1, JsonList(<<LintItem("E501", 3, 1), NonObject>>)) }

TypeOutputs ==
    TypeRuns \cup
    { Completed(1, JsonDict([generalDiagnostics |->
                               <<Diagnostic("warning", 9, 4), Diagnostic("error", 0, 0)>>])),
      Completed(1, JsonDict([generalDiagnostics |-> <<Diagnostic("warning", 0, 0)>>])),
      Completed(1, JsonDict([generalDiagnostics |-> <<Diagnostic("error", 9, 4)>>])),
      Completed(2, [kind |-> "text", lines |-> << <<"Usag", "e: pyright">> >>]),
      Completed(0, JsonDict([version |-> "1.1"])),
      Completed(0, JsonNull),
      Completed(0, JsonList(<<>>)),
      Completed(1, JsonDict([generalDiagnostics |-> <<NonObject>>])) }

RunnerCalls ==
    [runner : {"ruff-lint"}, env : Envs, paths : {<<"a.py">>, <<"a.py", "c">>},
     fix : BOOLEAN, toolrun : LintOutputs]
      \cup [runner : {"pyright"}, env : Envs, paths : {<<"a.py">>, <<"a.py", "c">>},
             fix : {FALSE}, toolrun : TypeOutputs]

InitRunner ==
    /\ fn_args \in {Some(c) : c \in RunnerCalls}
    /\ fn_result = None
    /\ scratch_files = {}

RunLint ==
    /\ fn_result = None
    /\ fn_args[1].runner = "ruff-lint"
    /\ fn_result' = Some(_run_ruff_lint(fn_args[1].env, fn_args[1].paths,
                                        fn_args[1].fix, fn_args[1].toolrun))
    /\ UNCHANGED <<fn_args, scratch_files>>
    /\ UNCHANGED <<resultVars, mergeVars, checkerVars, cliVars, hookVars>>

RunPyright ==
    /\ fn_result = None
    /\ fn_args[1].runner = "pyright"
    /\ fn_result' = Some(_run_pyright(fn_args[1].env, fn_args[1].paths, fn_args[1].toolrun))
    /\ UNCHANGED <<fn_args, scratch_files>>
    /\ UNCHANGED <<resultVars, mergeVars, checkerVars, cliVars, hookVars>>

(***************************************************************************)
(* One call of _check_file_for_stubs on a file of at most MaxLines lines.  *)
(***************************************************************************)
StubLines ==
    {"    @abstractmethod", "    @abc.abstractmethod", "    def run(self):",
     "        raise NotImplementedError", "x = 1"}

StubFiles == {"a.py", "c/m.py", "test_a.py"}

InitStubs ==
    /\ fn_args \in {Some([file_path |-> f, lines |-> t]) :
                       f \in StubFiles, t \in SeqsUpTo(StubLines, MaxLines)}
    /\ fn_result = None
    /\ scratch_files = {}

CheckFileForStubs ==
    /\ fn_result = None
    /\ fn_result' = Some(_check_file_for_stubs(
                            fn_args[1].file_path,
                            [f \in {fn_args[1].file_path} |-> Some(fn_args[1].lines)]))
    /\ UNCHANGED <<fn_args, scratch_files>>
    /\ UNCHANGED <<resultVars, mergeVars, checkerVars, cliVars, hookVars>>

(***************************************************************************)
(* checker.py: check_content.  The content is a sequence of lines; it is   *)
(* written to a scratch file in text mode, which encodes it, and a lone    *)
(* surrogate has no encoding: f.write raises UnicodeEncodeError.  The      *)
(* value is what the call returns or raises, the check_files call it made  *)
(* with the scratch files present at that moment (None when it made        *)
(* none), and the scratch files present when it is over.                   *)
(***************************************************************************)
LoneSurrogate == "<U+DC80>"

Encodable(content) == \A k \in 1..Len(content) : content[k] # LoneSurrogate

\* for issue in result.issues: if issue.file == temp_path: issue.file = filename
RewritePaths(result, filename) ==
    [result EXCEPT !.issues =
        [k \in 1..Len(result.issues) |->
            IF result.issues[k].file = temp_path
            THEN [result.issues[k] EXCEPT !.file = filename]
            ELSE result.issues[k]]]

check_content(config, env, content, filename, runs) ==
    LET created == {temp_path}
        done == check_files(config, env, <<temp_path>>, FALSE, runs,
                            [f \in {temp_path} |-> Some(content)])
        call == Some([paths |-> <<temp_path>>, present |-> created,
                      returned |-> done.result])
    IN IF ~Encodable(content)
       THEN [outcome |-> Raises("UnicodeEncodeError"), aggregator |-> None,
             left |-> created]
       ELSE IF IsRaise(done.result)
       THEN [outcome |-> done.result, aggregator |-> call,
             left |-> created \ {temp_path}]
       ELSE [outcome |-> RewritePaths(done.result, filename), aggregator |-> call,
             left |-> created \ {temp_path}]

Contents == {<<"x = 1">>, <<"x = 1", "# TODO: finish">>, <<"x = 1", LoneSurrogate>>}

\* What the tools print about the scratch file: nothing, findings in the
\* scratch file and in another file, and a JSON document that is no list.
ContentRuns ==
    [format : { Completed(0, [kind |-> "empty"]),
                Completed(1, [kind |-> "text",
                              lines |-> << <<"--- ", temp_path>>,
                                           <<"+++ ", temp_path>> >>]) },
     lint : { Completed(0, JsonList(<<>>)),
              Completed(1, JsonList(<<[LintItem("E501", 3, 1) EXCEPT !.filename = temp_path],
                                      LintItem("F401", 1, 1)>>)),
              Completed(1, JsonNull) },
     types : { Completed(0, JsonDict([generalDiagnostics |-> <<>>])),
               Completed(1, JsonDict([generalDiagnostics |->
                    <<[Diagnostic("error", 0, 0) EXCEPT !.file = temp_path]>>])) }]

InitContent ==
    /\ checker_config \in Configs
    /\ host \in Envs
    /\ given = None
    /\ runner_calls = <<>>
    /\ check_result = None
    /\ fn_args \in {Some([content |-> c, filename |-> f]) :
                       c \in Contents, f \in {"stdin.py", "snippet.py"}}
    /\ fn_result = None
    /\ scratch_files = {}

CheckContent ==
    /\ fn_result = None
    /\ \E runs \in ContentRuns :
          LET done == check_content(checker_config, host, fn_args[1].content,
                                    fn_args[1].filename, runs)
          IN /\ fn_result' = Some([outcome |-> done.outcome,
                                   aggregator |-> done.aggregator])
             /\ scratch_files' = done.left
    /\ UNCHANGED fn_args
    /\ UNCHANGED <<resultVars, mergeVars, checkerVars, cliVars, hookVars>>

(***************************************************************************)
(* config.py: load_config, and models.py: CheckConfig.from_dict.  A dict   *)
(* is a function on the set of its keys.                                   *)
(***************************************************************************)
env_mapping ==
    << <<"AMPLIFIER_PYTHON_ENABLE_RUFF_FORMAT", "enable_ruff_format">>,
       <<"AMPLIFIER_PYTHON_ENABLE_RUFF_LINT", "enable_ruff_lint">>,
       <<"AMPLIFIER_PYTHON_ENABLE_PYRIGHT", "enable_pyright">>,
       <<"AMPLIFIER_PYTHON_ENABLE_STUB_CHECK", "enable_stub_check">>,
       <<"AMPLIFIER_PYTHON_FAIL_ON_WARNING", "fail_on_warning">>,
       <<"AMPLIFIER_PYTHON_AUTO_FIX", "auto_fix">> >>

\* value.lower()
lower(value) ==
    CASE value \in {"true", "TRUE", "True"} -> "true"
      [] value \in {"false", "FALSE", "False"} -> "false"
      [] value \in {"yes", "YES", "Yes"} -> "yes"
      [] value \in {"no", "NO", "No"} -> "no"
      [] OTHER -> value

\* dict.update: the keys of other win
Update(dict, other) ==
    [k \in DOMAIN dict \cup DOMAIN other |->
        IF k \in DOMAIN other THEN other[k] ELSE dict[k]]

\* One turn of the loop over env_mapping.
ApplyEnvVar(config_data, environ, pair) ==
    IF pair[1] \notin DOMAIN environ THEN config_data
    ELSE IF lower(environ[pair[1]]) \in {"true", "1", "yes"}
    THEN Update(config_data, [k \in {pair[2]} |-> TRUE])
    ELSE IF lower(environ[pair[1]]) \in {"false", "0", "no"}
    THEN Update(config_data, [k \in {pair[2]} |-> FALSE])
    ELSE config_data

RECURSIVE ApplyEnv(_, _, _)
ApplyEnv(config_data, environ, pairs) ==
    IF pairs = <<>> THEN config_data
    ELSE ApplyEnv(ApplyEnvVar(config_data, environ, Head(pairs)), environ, Tail(pairs))


from_dict(data) ==
    [enable_ruff_format |-> Get(data, "enable_ruff_format", TRUE),
     enable_ruff_lint |-> Get(data, "enable_ruff_lint", TRUE),
     enable_pyright |-> Get(data, "enable_pyright", TRUE),
     enable_stub_check |-> Get(data, "enable_stub_check", TRUE),
     fail_on_warning |-> Get(data, "fail_on_warning", FALSE),
     auto_fix |-> Get(data, "auto_fix", FALSE)]

\* A TOML value that is no table (a string, a number, ...), and the test
\* for a table.
Scalar(text) == [scalar |-> text]
IsTable(value) == "scalar" \notin DOMAIN value

\* Lines 53-61: what the try block leaves in config_data, as None (nothing
\* assigned: no file, open or tomllib.load raised, or "tool" is no table so
\* that .get raised inside the try) or Some(value of the section).
pyproject_section(pyproject) ==
    IF pyproject.state # "toml" THEN None
    ELSE LET tool == Get(pyproject.doc, "tool", <<>>)
         IN IF ~IsTable(tool) THEN None
            ELSE Some(Get(tool, "amplifier-python-dev", <<>>))

\* Some turn of the loop over env_mapping assigns config_data[config_key].
EnvAssigns(environ) ==
    \E k \in 1..Len(env_mapping) :
        /\ env_mapping[k][1] \in DOMAIN environ
        /\ lower(environ[env_mapping[k][1]]) \in {"true", "1", "yes", "false", "0", "no"}

\* section: the [tool.amplifier-python-dev] value that was read, or None when
\* there is no readable pyproject.toml.  A section that is no table makes the
\* first use of config_data as a dict raise: the item assignment of the
\* environment loop (TypeError), else update or from_dict's data.get.
load_config(section, environ, overrides) ==
    LET config_data == IF section = None THEN <<>> ELSE section[1]
    IN IF ~IsTable(config_data)
       THEN (IF EnvAssigns(environ) THEN Raises("TypeError") ELSE Raises("AttributeError"))
       ELSE from_dict(Update(ApplyEnv(config_data, environ, env_mapping), overrides))

(***************************************************************************)
(* One call of load_config(config_path, overrides) in an environment.      *)
(***************************************************************************)
Sections ==
    { <<>>, [enable_pyright |-> FALSE],
      [enable_pyright |-> FALSE, fail_on_warning |-> TRUE], Scalar("strict") }

Pyprojects ==
    { [state |-> st, doc |-> <<>>] : st \in {"absent", "unreadable", "not-toml", "toml"} }
      \cup { [state |-> "toml", doc |-> [k \in {"tool"} |-> Scalar("x")]],
              [state |-> "toml", doc |-> [k \in {"tool"} |-> <<>>]] }
      \cup { [state |-> "toml",
              doc |-> [k \in {"tool"} |-> [j \in {"amplifier-python-dev"} |-> sec]]] :
              sec \in Sections }

EnvValues == {"TRUE", "1", "yes", "No", "0", "false", "maybe", ""}

Environs ==
    UNION { [names -> EnvValues] :
              names \in SUBSET {"AMPLIFIER_PYTHON_ENABLE_PYRIGHT",
                                "AMPLIFIER_PYTHON_FAIL_ON_WARNING"} }

Overrides ==
    UNION { [keys -> BOOLEAN] : keys \in SUBSET {"enable_pyright", "fail_on_warning"} }

InitConfig ==
    /\ fn_args \in {Some([pyproject |-> f, environ |-> e, overrides |-> o]) :
                       f \in Pyprojects, e \in Environs, o \in Overrides}
    /\ fn_result = None
    /\ scratch_files = {}

LoadConfig ==
    /\ fn_result = None
    /\ fn_result' = Some([loaded |-> load_config(pyproject_section(fn_args[1].pyproject),
                                                 fn_args[1].environ,
                                                 fn_args[1].overrides)])
    /\ UNCHANGED <<fn_args, scratch_files>>
    /\ UNCHANGED <<resultVars, mergeVars, checkerVars, cliVars, hookVars>>

(***************************************************************************)
(* cli.py: main.  One run of the command: the process ends in sys.exit.    *)
(***************************************************************************)
Settings ==
    { [section |-> None, environ |-> <<>>],
      [section |-> Some([k \in {"enable_pyright"} |-> FALSE]),
       environ |-> [k \in {"AMPLIFIER_PYTHON_ENABLE_RUFF_LINT"} |-> "No"]] }

Flags ==
    [fix : BOOLEAN, output_format : {"text", "json", "github"},
     no_format : BOOLEAN, no_lint : BOOLEAN, no_types : BOOLEAN,
     no_stubs : BOOLEAN, only_errors : BOOLEAN]

InitCli ==
    /\ host \in {h \in Envs : h.interp = "ok" /\ h.pyright}
    /\ settings \in Settings
    /\ argv = None
    /\ found = None
    /\ echoed = None
    /\ exit_status = None

\* What main prints: the issues it shows, under the chosen format.
Echo(flags, shown) ==
    [format |-> flags.output_format,
     issues |-> shown.issues,
     checks_run |-> IF flags.output_format = "github" THEN {} ELSE shown.checks_run,
     fix_note |-> flags.output_format = "text" /\ flags.fix /\ ~clean(shown)]

main ==
    /\ exit_status = None
    /\ \E paths \in PathLists(MaxCliPaths), flags \in Flags,
          runs \in ToolRuns, src \in Sources :
          LET overrides == [k \in {"enable_ruff_format", "enable_ruff_lint",
                                   "enable_pyright", "enable_stub_check", "auto_fix"} |->
                              CASE k = "enable_ruff_format" -> ~flags.no_format
                                [] k = "enable_ruff_lint" -> ~flags.no_lint
                                [] k = "enable_pyright" -> ~flags.no_types
                                [] k = "enable_stub_check" -> ~flags.no_stubs
                                [] k = "auto_fix" -> flags.fix]
              config == load_config(settings.section, settings.environ, overrides)
              check_paths == IF paths # <<>> THEN paths ELSE <<".">>
              checked == check_files(config, host, check_paths, flags.fix, runs, src).result
              shown == IF flags.only_errors
                       THEN [checked EXCEPT !.issues =
                               SelectSeq(checked.issues, LAMBDA i : i.severity = ERROR)]
                       ELSE checked
          IN /\ argv' = Some([paths |-> paths, flags |-> flags])
             /\ found' = Some(checked)
             /\ echoed' = Some(Echo(flags, shown))
             /\ exit_status' = Some(exit_code(shown))
    /\ UNCHANGED <<host, settings>>
    /\ UNCHANGED <<checker_config, given, runner_calls, check_result>>
    /\ UNCHANGED <<resultVars, mergeVars, hookVars>>
    /\ UNCHANGED callVars

(***************************************************************************)
(* hooks-python-check: FileCheckState                                      *)
(***************************************************************************)
FileCheckState == [error_count |-> 0, warning_count |-> 0, check_count |-> 0]

\* The state after the update, and the pair the call returns.
update_returns_new(state, errors, warnings) ==
    [state |-> [error_count |-> errors, warning_count |-> warnings,
                check_count |-> state.check_count + 1],
     returned |-> <<errors, warnings>>]

\* As update, but a check that finds the counts unchanged is not counted.
update_counts_changes(state, errors, warnings) ==
    [state |-> [error_count |-> errors, warning_count |-> warnings,
                check_count |-> IF <<errors, warnings>> = <<state.error_count, state.warning_count>>
                                   /\ state.check_count > 0
                                THEN state.check_count
                                ELSE state.check_count + 1],
     returned |-> <<state.error_count, state.warning_count>>]

update(state, errors, warnings) ==
    [state |-> [error_count |-> errors, warning_count |-> warnings,
                check_count |-> state.check_count + 1],
     returned |-> <<state.error_count, state.warning_count>>]

(***************************************************************************)
(* hooks-python-check: PythonCheckHooks helpers                            *)
(***************************************************************************)
ICONS(name) ==
    CASE name = "clean" -> "\\u2713"
      [] name = "minor" -> "\\u25d0"
      [] name = "errors" -> "\\u25cf"
      [] name = "stubs" -> "\\u25d1"

\* fnmatch.fnmatch(name, pattern)
fnmatch(name, pattern) ==
    pattern = "*.py" /\ name \in {"a.py", "m.py", "c/m.py", "gone.py"} \cup OtherNames

_matches_patterns(self, file_path) ==
    \E k \in 1..Len(self.file_patterns) :
        \/ fnmatch(path_name(path_str(file_path)), self.file_patterns[k])
        \/ fnmatch(path_str(file_path), self.file_patterns[k])

level_order(name) ==
    CASE name = "error" -> Some(0)
      [] name = "warning" -> Some(1)
      [] name = "info" -> Some(2)
      [] OTHER -> None

\* dict.get(key, default) on level_order
LevelOr(name, default) ==
    IF level_order(name) = None THEN default ELSE level_order(name)[1]

\* As _filter_by_level, but an issue at the report level itself is dropped.
_filter_by_level_strict(self, issues) ==
    LET min_level == LevelOr(self.report_level, 1)
    IN SelectSeq(issues, LAMBDA i : LevelOr(i.severity, 0) < min_level)

\* As _filter_by_level, but the threshold is the least urgent rank present.
_filter_by_level_relative(self, issues) ==
    SelectSeq(issues, LAMBDA i :
        \E k \in 1..Len(issues) : LevelOr(i.severity, 0) < LevelOr(issues[k].severity, 0))

_filter_by_level(self, issues) ==
    LET min_level == LevelOr(self.report_level, 1)
    IN SelectSeq(issues, LAMBDA i : LevelOr(i.severity, 0) <= min_level)

\* As resolve, but a symbolic link is not followed.
resolve_no_links(file_path) ==
    CASE file_path \in {"a.py", "./a.py", "/w/a.py", "c/../a.py"} -> "/w/a.py"
      [] file_path = "/l/a.py" -> "/l/a.py"
      [] file_path = "c/m.py" -> "/w/c/m.py"
      [] file_path = "gone.py" -> "/w/gone.py"
      [] file_path = "b.ts" -> "/w/b.ts"

\* Path(file_path).resolve(), with the working directory /w
resolve(file_path) ==
    CASE file_path \in {"a.py", "./a.py"} \cup OtherNames -> "/w/a.py"
      [] file_path = "c/m.py" -> "/w/c/m.py"
      [] file_path = "gone.py" -> "/w/gone.py"
      [] file_path = "b.ts" -> "/w/b.ts"

\* Path(file_path).exists()
exists(file_path) == path_str(file_path) \in RegularFiles \cup Dirs \cup OtherNames

\* Only an absolute path is shown relative to the working directory or to
\* home; every other path is shown by its name.
is_absolute(file_path) == file_path \in {"/w/a.py", "/l/a.py"}

_get_relative_path(file_path) ==
    IF is_absolute(file_path) /\ file_path = "/w/a.py" THEN "a.py"
    ELSE path_name(path_str(file_path))

\* self._file_states after _get_file_state(file_path): a dict, as a function
\* on the set of its keys.
\* As _get_file_state, but the path's tracker is replaced by a new one.
_get_file_state_fresh(states, file_path) ==
    LET abs_path == resolve(file_path)
    IN [k \in DOMAIN states \cup {abs_path} |->
          IF k = abs_path THEN FileCheckState ELSE states[k]]

_get_file_state(states, file_path) ==
    LET abs_path == resolve(file_path)
    IN IF abs_path \notin DOMAIN states
       THEN [k \in DOMAIN states \cup {abs_path} |->
               IF k = abs_path THEN FileCheckState ELSE states[k]]
       ELSE states

\* As _categorize_issues, but the severity is looked at before the format
\* source.
_categorize_issues_severity_first(issues) ==
    [type_errors |-> SelectSeq(issues, LAMBDA i : i.source = "pyright"),
     stubs |-> SelectSeq(issues, LAMBDA i : i.source = "stub-check"),
     style_issues |-> SelectSeq(issues, LAMBDA i :
                  i.source \notin {"pyright", "stub-check"} /\ i.severity # ERROR),
     lint_errors |-> SelectSeq(issues, LAMBDA i :
                  i.source \notin {"pyright", "stub-check"} /\ i.severity = ERROR)]

_categorize_issues(issues) ==
    [type_errors |-> SelectSeq(issues, LAMBDA i : i.source = "pyright"),
     stubs |-> SelectSeq(issues, LAMBDA i :
                  i.source # "pyright" /\ i.source = "stub-check"),
     style_issues |-> SelectSeq(issues, LAMBDA i :
                  /\ i.source \notin {"pyright", "stub-check"}
                  /\ (i.source = "ruff-format" \/ i.severity # ERROR)),
     lint_errors |-> SelectSeq(issues, LAMBDA i :
                  /\ i.source \notin {"pyright", "stub-check", "ruff-format"}
                  /\ i.severity = ERROR)]

\* f"{n} {noun}{'s' if n != 1 else ''}"
Counted(n, noun) == Str(n) \o <<" ", noun>> \o (IF n # 1 THEN <<"s">> ELSE <<>>)

RECURSIVE JoinParts(_, _)
JoinParts(parts, sep) ==
    IF Len(parts) = 0 THEN <<>>
    ELSE IF Len(parts) = 1 THEN parts[1]
    ELSE parts[1] \o <<sep>> \o JoinParts(Tail(parts), sep)

_format_category_summary(categories) ==
    LET type_errors == Len(categories.type_errors)
        lint_errors == Len(categories.lint_errors)
        style_issues == Len(categories.style_issues)
        stubs == Len(categories.stubs)
        parts == (IF type_errors # 0 THEN <<Counted(type_errors, "type error")>> ELSE <<>>)
              \o (IF lint_errors # 0 THEN <<Counted(lint_errors, "lint error")>> ELSE <<>>)
              \o (IF style_issues # 0 THEN <<Counted(style_issues, "style issue")>> ELSE <<>>)
              \o (IF stubs # 0 THEN <<Counted(stubs, "stub")>> ELSE <<>>)
    IN IF parts # <<>> THEN JoinParts(parts, ", ") ELSE <<"no issues">>

\* As _get_severity_icon, but an error is looked for before the stubs.
_get_severity_icon_error_first(checked, categories) ==
    IF clean(checked) THEN ICONS("clean")
    ELSE IF error_count(checked) > 0 THEN ICONS("errors")
    ELSE IF categories.stubs # <<>> /\ categories.type_errors = <<>>
            /\ categories.lint_errors = <<>>
    THEN ICONS("stubs")
    ELSE ICONS("minor")

_get_severity_icon(checked, categories) ==
    IF clean(checked) THEN ICONS("clean")
    ELSE IF categories.stubs # <<>> /\ categories.type_errors = <<>>
            /\ categories.lint_errors = <<>>
    THEN ICONS("stubs")
    ELSE IF error_count(checked) > 0 THEN ICONS("errors")
    ELSE ICONS("minor")

\* As _format_user_message, but an unchanged total also counts as progress.
_format_user_message_was_on_equal(self, checked, display_path, file_state, prev_errors, prev_warnings) ==
    LET categories == _categorize_issues(checked.issues)
        icon == _get_severity_icon(checked, categories)
        category_summary == _format_category_summary(categories)
        level == IF clean(checked) THEN "info"
                 ELSE IF error_count(checked) > 0 THEN "error"
                 ELSE "warning"
        total == Len(checked.issues)
        prev_total == prev_errors + prev_warnings
        curr_total == error_count(checked) + warning_count(checked)
    IN IF clean(checked)
       THEN IF file_state.check_count > 1 /\ (prev_errors > 0 \/ prev_warnings > 0)
            THEN << <<icon, " ", display_path, ": clean (was ">>
                      \o Str(prev_errors + prev_warnings) \o <<" issues)">>, "info">>
            ELSE << <<icon, " ", display_path, ": clean">>, "info">>
       ELSE IF self.verbosity = "minimal"
       THEN << <<icon, " ", display_path, ": ">> \o Str(total)
                 \o <<" issue">> \o (IF total # 1 THEN <<"s">> ELSE <<>>), level>>
       ELSE << <<icon, " ", display_path, ": ">> \o category_summary
                 \o (IF file_state.check_count > 1 /\ curr_total <= prev_total
                     THEN <<" (was ">> \o Str(prev_total) \o <<")">>
                     ELSE <<>>),
               level>>

\* The pair (message, level).
_format_user_message(self, checked, display_path, file_state, prev_errors, prev_warnings) ==
    LET categories == _categorize_issues(checked.issues)
        icon == _get_severity_icon(checked, categories)
        category_summary == _format_category_summary(categories)
        level == IF clean(checked) THEN "info"
                 ELSE IF error_count(checked) > 0 THEN "error"
                 ELSE "warning"
        total == Len(checked.issues)
        prev_total == prev_errors + prev_warnings
        curr_total == error_count(checked) + warning_count(checked)
    IN IF clean(checked)
       THEN IF file_state.check_count > 1 /\ (prev_errors > 0 \/ prev_warnings > 0)
            THEN << <<icon, " ", display_path, ": clean (was ">>
                      \o Str(prev_errors + prev_warnings) \o <<" issues)">>, "info">>
            ELSE << <<icon, " ", display_path, ": clean">>, "info">>
       ELSE IF self.verbosity = "minimal"
       THEN << <<icon, " ", display_path, ": ">> \o Str(total)
                 \o <<" issue">> \o (IF total # 1 THEN <<"s">> ELSE <<>>), level>>
       ELSE << <<icon, " ", display_path, ": ">> \o category_summary
                 \o (IF file_state.check_count > 1 /\ curr_total < prev_total
                     THEN <<" (was ">> \o Str(prev_total) \o <<")">>
                     ELSE <<>>),
               level>>

\* sorted(..., key=lambda i: (0 if error else 1, i.line)): a stable sort
SortKeyLess(i, j) ==
    LET ki == IF i.severity = ERROR THEN 0 ELSE 1
        kj == IF j.severity = ERROR THEN 0 ELSE 1
    IN ki < kj \/ (ki = kj /\ i.line < j.line)

RECURSIVE InsertSorted(_, _)
InsertSorted(sorted_issues, issue) ==
    IF sorted_issues = <<>> THEN <<issue>>
    ELSE IF SortKeyLess(issue, Head(sorted_issues))
    THEN <<issue>> \o sorted_issues
    ELSE <<Head(sorted_issues)>> \o InsertSorted(Tail(sorted_issues), issue)

RECURSIVE Sorted(_)
Sorted(issues) ==
    IF issues = <<>> THEN <<>>
    ELSE InsertSorted(Sorted(SubSeq(issues, 1, Len(issues) - 1)), issues[Len(issues)])

max_issues == 5
context_issues == 10

\* len(issue.message) > 63, and issue.message[:60]; no message of the model
\* is that long.
TooLong(message) == FALSE
First60(message) == message

\* f"{issue.line:<4}": the digits, padded with spaces to four characters
PadLine(line) ==
    Str(line) \o [k \in 1..Max(0, 4 - Len(Str(line))) |-> " "]

DetailLine(issue) ==
    <<"\\u2502 ", IF issue.severity = ERROR THEN "error" ELSE "warn ", "  line ">>
      \o PadLine(issue.line) \o <<"  ">>
      \o (IF TooLong(issue.message) THEN First60(issue.message) \o <<"...">>
          ELSE issue.message)

_format_detailed_issues(checked) ==
    LET sorted_issues == Sorted(checked.issues)
        first == SubSeq(sorted_issues, 1, Min(max_issues, Len(sorted_issues)))
        lines == [k \in 1..Len(first) |-> DetailLine(first[k])]
              \o (IF Len(checked.issues) > max_issues
                  THEN << <<"\\u2502 ... and ">> \o Str(Len(checked.issues) - max_issues)
                            \o <<" more">> >>
                  ELSE <<>>)
    IN JoinParts(lines, "\n")

\* As _should_show_details, but normal verbosity shows every result's details.
_should_show_details_any_issue(self, checked) ==
    self.verbosity # "minimal"

_should_show_details(self, checked) ==
    IF self.verbosity = "detailed" THEN TRUE
    ELSE IF self.verbosity = "minimal" THEN FALSE
    ELSE error_count(checked) > 0

\* models.py: Issue.format_short
format_short(issue) ==
    <<issue.file, ":">> \o Str(issue.line) \o <<":">> \o Str(issue.column)
      \o <<": [", issue.code, "] ">> \o issue.message

\* As ContextText, but cut at the cap of the user's detail block.
ContextText_display_cap(checked, display_path) ==
    LET first == SubSeq(checked.issues, 1, Min(max_issues, Len(checked.issues)))
        context_lines ==
            << <<"Python check found issues in ", display_path, ":">> >>
              \o [k \in 1..Len(first) |-> <<"- ">> \o format_short(first[k])]
              \o (IF Len(checked.issues) > max_issues
                  THEN << <<"  ... and ">> \o Str(Len(checked.issues) - max_issues)
                            \o <<" more issues">> >>
                  ELSE <<>>)
    IN JoinParts(context_lines, "\n")

ContextText(checked, display_path) ==
    LET first == SubSeq(checked.issues, 1, Min(context_issues, Len(checked.issues)))
        context_lines ==
            << <<"Python check found issues in ", display_path, ":">> >>
              \o [k \in 1..Len(first) |-> <<"- ">> \o format_short(first[k])]
              \o (IF Len(checked.issues) > context_issues
                  THEN << <<"  ... and ">> \o Str(Len(checked.issues) - context_issues)
                            \o <<" more issues">> >>
                  ELSE <<>>)
    IN JoinParts(context_lines, "\n")

(***************************************************************************)
(* hooks-python-check: handle_tool_post                                    *)
(***************************************************************************)
HookResult(action, user_message, user_message_level, context_injection, context_injection_role) ==
    [action |-> action, user_message |-> user_message,
     user_message_level |-> user_message_level,
     context_injection |-> context_injection,
     context_injection_role |-> context_injection_role]

Continue == HookResult("continue", None, None, None, None)

\* As write_tools, with the read tool among them.
write_tools_and_read == {"write_file", "edit_file", "Write", "Edit", "MultiEdit", "Read"}

write_tools == {"write_file", "edit_file", "Write", "Edit", "MultiEdit"}

\* tool_input.get("file_path", tool_input.get("path", ""))
FilePathOf(tool_input) ==
    Get(tool_input, "file_path", Get(tool_input, "path", ""))

check_config(self) ==
    [enable_ruff_format |-> "format" \in self.checks,
     enable_ruff_lint |-> "lint" \in self.checks,
     enable_pyright |-> "types" \in self.checks,
     enable_stub_check |-> "stubs" \in self.checks]

\* PythonCheckHooks.__init__: the attributes read from the config dict.
PythonCheckHooks(config) ==
    [enabled |-> Get(config, "enabled", TRUE),
     file_patterns |-> Get(config, "file_patterns", <<"*.py">>),
     report_level |-> Get(config, "report_level", "warning"),
     auto_inject |-> Get(config, "auto_inject", TRUE),
     checks |-> Get(config, "checks", {"format", "lint", "types", "stubs"}),
     verbosity |-> Get(config, "verbosity", "normal"),
     show_clean |-> Get(config, "show_clean", TRUE)]

(***************************************************************************)
(* One call of _filter_by_level, and a second call on what it returned.    *)
(* The issue at position k of the list has line k.  An Issue's severity is *)
(* not validated, so a list may hold a severity outside the enum ("hint"). *)
(***************************************************************************)
FilterConfigs ==
    {<<>>} \cup [report_level : {"error", "warning", "info", "verbose"}]

FilterIssues ==
    { [k \in 1..Len(sevs) |->
          Issue("a.py", k, 1, "X100", <<"finding">>, sevs[k], "ruff-lint")] :
      sevs \in SeqsUpTo(Severity \cup {"hint"}, MaxIssues) }

InitFilter ==
    /\ fn_args \in {Some([config |-> c, issues |-> i]) :
                       c \in FilterConfigs, i \in FilterIssues}
    /\ fn_result = <<>>
    /\ scratch_files = {}

FilterByLevel ==
    /\ Len(fn_result) = 0
    /\ fn_result' = <<_filter_by_level(PythonCheckHooks(fn_args[1].config),
                                       fn_args[1].issues)>>
    /\ UNCHANGED <<fn_args, scratch_files>>
    /\ UNCHANGED <<resultVars, mergeVars, checkerVars, cliVars, hookVars>>

FilterAgain ==
    /\ Len(fn_result) = 1
    /\ fn_result' = Append(fn_result,
                           _filter_by_level(PythonCheckHooks(fn_args[1].config),
                                            fn_result[1]))
    /\ UNCHANGED <<fn_args, scratch_files>>
    /\ UNCHANGED <<resultVars, mergeVars, checkerVars, cliVars, hookVars>>

(***************************************************************************)
(* One call of _format_user_message for the first check of a.py, on each   *)
(* result check_files can return for it: any runners enabled, any          *)
(* environment, a.py alone or with a skipped b.ts, and the tool outputs     *)
(* below.                                                                  *)
(***************************************************************************)
MessageRuns ==
    [format : FormatRuns,
     lint : LintRuns \cup
            { Completed(1, JsonList(<<LintItem("W291", 2, 7)>>)),
              Completed(1, JsonList(<<LintItem("W291", 2, 7), LintItem("F401", 1, 1)>>)) },
     types : TypeRuns \cup
             { Completed(1, JsonDict([generalDiagnostics |->
                                        <<Diagnostic("warning", 9, 4)>>])) }]

MessageResults ==
    { check_files(c, e, ps, FALSE, r, src).result :
        c \in Configs, e \in Envs, ps \in {<<"a.py">>, <<"a.py", "b.ts">>},
        r \in MessageRuns, src \in Sources }

InitMessage ==
    /\ fn_args \in {Some([checked |-> r]) : r \in MessageResults}
    /\ fn_result = None
    /\ scratch_files = {}

FormatUserMessage ==
    /\ fn_result = None
    /\ \E categories \in {_categorize_issues(fn_args[1].checked.issues)} :
       \E formatted \in {_format_user_message(
                            PythonCheckHooks(<<>>), fn_args[1].checked, "a.py",
                            update(FileCheckState, error_count(fn_args[1].checked),
                                   warning_count(fn_args[1].checked)).state, 0, 0)} :
          fn_result' = Some([categories |-> categories,
                             icon |-> _get_severity_icon(fn_args[1].checked, categories),
                             message |-> formatted[1],
                             level |-> formatted[2]])
    /\ UNCHANGED <<fn_args, scratch_files>>
    /\ UNCHANGED <<resultVars, mergeVars, checkerVars, cliVars, hookVars>>

(***************************************************************************)
(* One PythonCheckHooks instance and the tool:post events it is sent.      *)
(***************************************************************************)
HookConfigs ==
    [enabled : BOOLEAN, file_patterns : {<<"*.py">>},
     report_level : {"error", "warning", "info"}, auto_inject : BOOLEAN,
     checks : {{"format", "lint", "types", "stubs"}},
     verbosity : {"minimal", "normal", "detailed"}, show_clean : BOOLEAN]

HookEvents ==
    { [tool_name |-> "Write", tool_input |-> [file_path |-> "a.py"]],
      [tool_name |-> "Edit", tool_input |-> [file_path |-> "./a.py"]],
      [tool_name |-> "write_file", tool_input |-> [path |-> "c/m.py"]],
      [tool_name |-> "Read", tool_input |-> [file_path |-> "a.py"]],
      [tool_name |-> "Write", tool_input |-> <<>>],
      [tool_name |-> "Write", tool_input |-> [file_path |-> "b.ts"]],
      [tool_name |-> "MultiEdit", tool_input |-> [file_path |-> "gone.py"]] }

HookPaths == {"a.py", "./a.py", "c/m.py"} \cup OtherNames
TrackedFiles == {"/w/a.py", "/w/c/m.py"}
HookHosts == {[interp |-> "ok", ruff |-> TRUE, pyright |-> TRUE]}

NoFormatDiff == Completed(0, [kind |-> "empty"])
FormatDiff ==
    Completed(1, [kind |-> "text",
                  lines |-> << <<"--- ", "a.py">>, <<"+++ ", "a.py">> >>])
NoLint == Completed(0, JsonList(<<>>))
LintError == Completed(1, JsonList(<<LintItem("E501", 3, 1)>>))
NoTypes == Completed(0, JsonDict([generalDiagnostics |-> <<>>]))
TypeError ==
    Completed(1, JsonDict([generalDiagnostics |-> <<Diagnostic("error", 0, 0)>>]))
TypeInformation ==
    Completed(0, JsonDict([generalDiagnostics |-> <<Diagnostic("information", 9, 4)>>]))

\* One lint finding more than the context digest lists: errors and warnings
\* in turn, the last line of the file first.
LintErrors ==
    Completed(1, JsonList([k \in 1..(context_issues + 1) |->
                             LintItem(IF k % 2 = 1 THEN "E501" ELSE "W291",
                                      context_issues + 2 - k, 1)]))

CleanSources == [f \in PyFiles |-> Some(<<"x = 1">>)]

\* What the tools find in the file at the time of an event: nothing; one
\* error; one warning; two errors and a warning; one info-severity issue;
\* six errors and five warnings.
HookScenarios ==
    { [runs |-> [format |-> NoFormatDiff, lint |-> NoLint, types |-> NoTypes],
       src |-> CleanSources],
      [runs |-> [format |-> NoFormatDiff, lint |-> LintError, types |-> NoTypes],
       src |-> CleanSources],
      [runs |-> [format |-> FormatDiff, lint |-> NoLint, types |-> NoTypes],
       src |-> CleanSources],
      [runs |-> [format |-> FormatDiff, lint |-> LintError, types |-> TypeError],
       src |-> CleanSources],
      [runs |-> [format |-> NoFormatDiff, lint |-> NoLint, types |-> TypeInformation],
       src |-> CleanSources],
      [runs |-> [format |-> NoFormatDiff, lint |-> LintErrors, types |-> NoTypes],
       src |-> CleanSources] }

InitHooks ==
    /\ hooks \in HookConfigs
    /\ host \in HookHosts
    /\ file_states = <<>>
    /\ hook_result = None
    /\ last_event = None
    /\ update_log = [f \in TrackedFiles |-> <<>>]

ChecksRun == Len(update_log["/w/a.py"]) + Len(update_log["/w/c/m.py"])

\* The handler returns hook_result, leaving self._file_states as states; ran
\* is None, or what the check and the state update of this event were.
Return(data, outcome, states, ran) ==
    /\ hook_result' = Some(outcome)
    /\ file_states' = states
    /\ last_event' = Some([data |-> data, ran |-> ran])
    /\ update_log' =
         IF ran = None THEN update_log
         ELSE [update_log EXCEPT ![ran[1].abs_path] =
                 Append(@, [given |-> ran[1].given, returned |-> ran[1].returned,
                            issues |-> Len(ran[1].checked.issues)])]

\* The user message of a result with issues, with its detail block.
UserMessage(self, checked, formatted) ==
    IF _should_show_details(self, checked)
    THEN formatted[1] \o <<"\n">> \o _format_detailed_issues(checked)
    ELSE formatted[1]

\* As Outcome, but an unchanged count is silent at every verbosity.
Outcome_silent_when_detailed(self, checked, display_path, file_state, prev, formatted) ==
    IF clean(checked)
    THEN IF self.show_clean
         THEN HookResult("continue", Some(formatted[1]), Some(formatted[2]), None, None)
         ELSE Continue
    ELSE IF /\ file_state.check_count > 1
            /\ error_count(checked) = prev[1]
            /\ warning_count(checked) = prev[2]
    THEN Continue
    ELSE IF self.auto_inject
    THEN HookResult("inject_context", Some(UserMessage(self, checked, formatted)),
                    Some(formatted[2]),
                    Some(ContextText(checked, display_path)), Some("system"))
    ELSE HookResult("continue", Some(UserMessage(self, checked, formatted)),
                    Some(formatted[2]), None, None)

\* As Outcome, but the context is injected whatever auto_inject says.
Outcome_inject_always(self, checked, display_path, file_state, prev, formatted) ==
    IF clean(checked)
    THEN IF self.show_clean
         THEN HookResult("continue", Some(formatted[1]), Some(formatted[2]), None, None)
         ELSE Continue
    ELSE IF /\ file_state.check_count > 1
            /\ error_count(checked) = prev[1]
            /\ warning_count(checked) = prev[2]
            /\ self.verbosity # "detailed"
    THEN Continue
    ELSE HookResult("inject_context", Some(UserMessage(self, checked, formatted)),
                    Some(formatted[2]),
                    Some(ContextText(checked, display_path)), Some("system"))

\* The HookResult for a checked file whose state was updated.
Outcome(self, checked, display_path, file_state, prev, formatted) ==
    IF clean(checked)
    THEN IF self.show_clean
         THEN HookResult("continue", Some(formatted[1]), Some(formatted[2]), None, None)
         ELSE Continue
    ELSE IF /\ file_state.check_count > 1
            /\ error_count(checked) = prev[1]
            /\ warning_count(checked) = prev[2]
            /\ self.verbosity # "detailed"
    THEN Continue
    ELSE IF self.auto_inject
    THEN HookResult("inject_context", Some(UserMessage(self, checked, formatted)),
                    Some(formatted[2]),
                    Some(ContextText(checked, display_path)), Some("system"))
    ELSE HookResult("continue", Some(UserMessage(self, checked, formatted)),
                    Some(formatted[2]), None, None)

\* check_files([file_path], config=self.check_config) for every hook
\* configuration, path and scenario of the model, computed once.
HookCheck ==
    [checks \in {c.checks : c \in HookConfigs}, tools \in HookHosts,
     file_path \in HookPaths, scenario \in HookScenarios |->
        check_files(check_config([checks |-> checks]), tools, <<file_path>>, FALSE,
                    scenario.runs, scenario.src).result]

\* handle_tool_post from "Run checks" on: file_path is a file to check.
\* Each \E binds the value of one local variable of the handler.
RunChecks(data, file_path, scenario) ==
    \E raw \in {HookCheck[hooks.checks, host, file_path, scenario]} :
    \E checked \in {[raw EXCEPT !.issues = _filter_by_level(hooks, raw.issues)]} :
    \E display_path \in {_get_relative_path(file_path)} :
    \E with_state \in {_get_file_state(file_states, file_path)} :
    \E updated \in {update(with_state[resolve(file_path)],
                           error_count(checked), warning_count(checked))} :
    \E formatted \in {_format_user_message(hooks, checked, display_path, updated.state,
                                           updated.returned[1], updated.returned[2])} :
        /\ ChecksRun < MaxChecks
        /\ Return(data,
                  Outcome(hooks, checked, display_path, updated.state,
                          updated.returned, formatted),
                  [with_state EXCEPT ![resolve(file_path)] = updated.state],
                  Some([abs_path |-> resolve(file_path), checked |-> checked,
                        given |-> <<error_count(checked), warning_count(checked)>>,
                        returned |-> updated.returned]))

\* handle_tool_post is an async def with no await in it, and check_files
\* blocks: once the event loop starts the handler for an event it runs to
\* its return.  Events dispatched together are thus handled one whole
\* handler at a time, in any order.
HandleToolPost ==
    /\ \E data \in HookEvents :
          IF ~hooks.enabled THEN Return(data, Continue, file_states, None)
          ELSE IF Get(data, "tool_name", "") \notin write_tools
          THEN Return(data, Continue, file_states, None)
          ELSE IF FilePathOf(Get(data, "tool_input", <<>>)) = ""
          THEN Return(data, Continue, file_states, None)
          ELSE IF ~_matches_patterns(hooks, FilePathOf(data.tool_input))
          THEN Return(data, Continue, file_states, None)
          ELSE IF ~exists(FilePathOf(data.tool_input))
          THEN Return(data, Continue, file_states, None)
          ELSE \E scenario \in HookScenarios :
                  RunChecks(data, FilePathOf(data.tool_input), scenario)
    /\ UNCHANGED <<hooks, host>>
    /\ UNCHANGED <<checker_config, given, runner_calls, check_result>>
    /\ UNCHANGED <<resultVars, mergeVars, cliVars>>
    /\ UNCHANGED callVars

(***************************************************************************)
(* handle_tool_post on events that name a.py in four ways, and c/m.py.     *)
(* fn_args keeps the file paths of the events handled so far, in order.    *)
(***************************************************************************)
SpelledEvents ==
    { [tool_name |-> "Write", tool_input |-> [file_path |-> "a.py"]],
      [tool_name |-> "Edit", tool_input |-> [file_path |-> "/w/a.py"]],
      [tool_name |-> "Edit", tool_input |-> [file_path |-> "c/../a.py"]],
      [tool_name |-> "MultiEdit", tool_input |-> [file_path |-> "/l/a.py"]],
      [tool_name |-> "write_file", tool_input |-> [path |-> "c/m.py"]] }

SpelledScenarios ==
    { sc \in HookScenarios :
        /\ sc.runs.types = NoTypes
        /\ sc.runs.lint \in {NoLint, LintError} }

InitSpelled ==
    /\ hooks \in {c \in HookConfigs : c.enabled /\ c.auto_inject /\ c.show_clean}
    /\ host \in HookHosts
    /\ file_states = <<>>
    /\ hook_result = None
    /\ last_event = None
    /\ update_log = [f \in TrackedFiles |-> <<>>]

HandleSpelledPath ==
    /\ \E data \in SpelledEvents :
          /\ fn_args' = Append(fn_args, FilePathOf(Get(data, "tool_input", <<>>)))
          /\ IF ~hooks.enabled THEN Return(data, Continue, file_states, None)
             ELSE IF Get(data, "tool_name", "") \notin write_tools
             THEN Return(data, Continue, file_states, None)
             ELSE IF FilePathOf(Get(data, "tool_input", <<>>)) = ""
             THEN Return(data, Continue, file_states, None)
             ELSE IF ~_matches_patterns(hooks, FilePathOf(data.tool_input))
             THEN Return(data, Continue, file_states, None)
             ELSE IF ~exists(FilePathOf(data.tool_input))
             THEN Return(data, Continue, file_states, None)
             ELSE \E scenario \in SpelledScenarios :
                     RunChecks(data, FilePathOf(data.tool_input), scenario)
    /\ UNCHANGED <<hooks, host>>
    /\ UNCHANGED <<checker_config, given, runner_calls, check_result>>
    /\ UNCHANGED <<resultVars, mergeVars, cliVars>>
    /\ UNCHANGED <<fn_result, scratch_files>>

(***************************************************************************)
(* Inputs of the CheckResult specifications.                               *)
(***************************************************************************)
SampleIssues ==
    { Issue("a.py", 3, 1, "E501", <<"line too long">>, ERROR, "ruff-lint"),
      Issue("a.py", 7, 5, "reportGeneralTypeIssues", <<"bad type">>, ERROR, "pyright"),
      Issue("a.py", 1, 1, "FORMAT", <<"File would be reformatted">>, WARNING, "ruff-format"),
      Issue("a.py", 2, 9, "reportUnused", <<"unused">>, INFO, "pyright") }

MergeIssues ==
    { Issue("a.py", 3, 1, "E501", <<"line too long">>, ERROR, "ruff-lint"),
      Issue("a.py", 1, 1, "FORMAT", <<"File would be reformatted">>, WARNING, "ruff-format") }

MergeChecks == {"ruff-format", "ruff-lint"}

MergeOperands ==
    { CheckResult(i, f, c) : i \in SeqsUpTo(MergeIssues, MaxMergeIssues),
                             f \in 0..MaxFiles, c \in SUBSET MergeChecks }

(***************************************************************************)
(* Reading exit_code of a CheckResult, and reordering its issue list.      *)
(***************************************************************************)
InitResult ==
    /\ res \in { CheckResult(i, 1, {}) : i \in SeqsUpTo(SampleIssues, MaxIssues) }
    /\ code = None

ExitCode ==
    /\ code' = Some(exit_code(res))
    /\ UNCHANGED res
    /\ UNCHANGED <<mergeVars, checkerVars, cliVars, hookVars>>
    /\ UNCHANGED callVars

Orderings(n) ==
    { p \in [1..n -> 1..n] : \A i, j \in 1..n : i # j => p[i] # p[j] }

Permuted(s, p) == [k \in 1..Len(s) |-> s[p[k]]]

Reorder ==
    /\ Len(res.issues) > 1
    /\ \E p \in Orderings(Len(res.issues)) :
          res' = [res EXCEPT !.issues = Permuted(res.issues, p)]
    /\ code' = None
    /\ UNCHANGED <<mergeVars, checkerVars, cliVars, hookVars>>
    /\ UNCHANGED callVars

(***************************************************************************)
(* Merging three CheckResults in both groupings and both orders.           *)
(***************************************************************************)
InitMerge ==
    /\ ra \in MergeOperands
    /\ rb \in MergeOperands
    /\ rc \in MergeOperands
    /\ merged = None

Merge ==
    /\ merged = None
    /\ merged' = Some([ab |-> merge(ra, rb), ba |-> merge(rb, ra),
                  left |-> merge(merge(ra, rb), rc),
                  right |-> merge(ra, merge(rb, rc))])
    /\ UNCHANGED <<ra, rb, rc>>
    /\ UNCHANGED <<resultVars, checkerVars, cliVars, hookVars>>
    /\ UNCHANGED callVars

(***************************************************************************)
(* Specifications                                                          *)
(***************************************************************************)
CallIdle == fn_args = None /\ fn_result = None /\ scratch_files = {}
MergeIdle == ra = None /\ rb = None /\ rc = None /\ merged = None
ResultIdle == res = None /\ code = None

NextResult == ExitCode \/ Reorder
CheckerIdle ==
    /\ checker_config = None /\ host = None /\ given = None
    /\ runner_calls = <<>> /\ check_result = None

CliIdle ==
    /\ settings = None /\ argv = None /\ found = None
    /\ echoed = None /\ exit_status = None

HookIdle ==
    /\ hooks = None /\ file_states = <<>> /\ hook_result = None
    /\ last_event = None /\ update_log = <<>>

InitResultSpec == InitResult /\ MergeIdle /\ CheckerIdle /\ CliIdle /\ HookIdle /\ CallIdle
SpecResult == InitResultSpec /\ [][NextResult]_vars

NextMerge == Merge
InitMergeSpec == InitMerge /\ ResultIdle /\ CheckerIdle /\ CliIdle /\ HookIdle /\ CallIdle
SpecMerge == InitMergeSpec /\ [][NextMerge]_vars

NextChecker == CheckFiles
InitCheckerSpec == InitChecker /\ ResultIdle /\ MergeIdle /\ CliIdle /\ HookIdle /\ CallIdle
SpecChecker == InitCheckerSpec /\ [][NextChecker]_vars

Next == HandleToolPost
Init ==
    /\ InitHooks /\ ResultIdle /\ MergeIdle /\ CliIdle /\ CallIdle
    /\ checker_config = None /\ given = None /\ runner_calls = <<>> /\ check_result = None
Spec == Init /\ [][Next]_vars

NextRunner == RunLint \/ RunPyright
InitRunnerSpec ==
    InitRunner /\ ResultIdle /\ MergeIdle /\ CheckerIdle /\ CliIdle /\ HookIdle
SpecRunner == InitRunnerSpec /\ [][NextRunner]_vars

NextStubs == CheckFileForStubs
InitStubsSpec ==
    InitStubs /\ ResultIdle /\ MergeIdle /\ CheckerIdle /\ CliIdle /\ HookIdle
SpecStubs == InitStubsSpec /\ [][NextStubs]_vars

NextSpelled == HandleSpelledPath
InitSpelledSpec ==
    /\ InitSpelled /\ ResultIdle /\ MergeIdle /\ CliIdle /\ CallIdle
    /\ checker_config = None /\ given = None /\ runner_calls = <<>> /\ check_result = None
SpecSpelled == InitSpelledSpec /\ [][NextSpelled]_vars

NextMessage == FormatUserMessage
InitMessageSpec ==
    InitMessage /\ ResultIdle /\ MergeIdle /\ CheckerIdle /\ CliIdle /\ HookIdle
SpecMessage == InitMessageSpec /\ [][NextMessage]_vars

NextConfig == LoadConfig
InitConfigSpec ==
    InitConfig /\ ResultIdle /\ MergeIdle /\ CheckerIdle /\ CliIdle /\ HookIdle
SpecConfig == InitConfigSpec /\ [][NextConfig]_vars

NextContent == CheckContent
InitContentSpec == InitContent /\ ResultIdle /\ MergeIdle /\ CliIdle /\ HookIdle
SpecContent == InitContentSpec /\ [][NextContent]_vars

NextFilter == FilterByLevel \/ FilterAgain
InitFilterSpec ==
    InitFilter /\ ResultIdle /\ MergeIdle /\ CheckerIdle /\ CliIdle /\ HookIdle
SpecFilter == InitFilterSpec /\ [][NextFilter]_vars

NextCli == main
InitCliSpec ==
    /\ InitCli /\ ResultIdle /\ MergeIdle /\ HookIdle /\ CallIdle
    /\ checker_config = None /\ given = None /\ runner_calls = <<>> /\ check_result = None
SpecCli == InitCliSpec /\ [][NextCli]_vars

(***************************************************************************)
(* Claims about CheckResult (SpecResult, SpecMerge)                        *)
(***************************************************************************)
\* C4: for every CheckResult, whatever mix of error, warning and info issues
\* it holds, exit_code is 0 if and only if clean is true.
C4_ExitZeroIffClean ==
    code # None => ((code[1] = 0) <=> clean(res))

\* C5: exit_code is 2 iff error_count > 0, and 1 iff error_count = 0 and
\* warning_count > 0; every permutation of the issue list has the exit_code
\* that was returned for the list as it stands.
C5_ExitCodeByCounts ==
    code # None =>
        /\ (code[1] = 2) <=> (error_count(res) > 0)
        /\ (code[1] = 1) <=> (error_count(res) = 0 /\ warning_count(res) > 0)
        /\ code[1] \in {0, 1, 2}
        /\ \A p \in Orderings(Len(res.issues)) :
              exit_code([res EXCEPT !.issues = Permuted(res.issues, p)]) = code[1]

\* C5 witness: exit_code 2 was returned for a three-issue list whose first
\* issue is not an error.
C5_Witness ==
    /\ code = Some(2)
    /\ Len(res.issues) = 3
    /\ res.issues[1].severity = INFO
    /\ res.issues[3].severity = ERROR

Range(s) == {s[k] : k \in 1..Len(s)}

\* The multiset of the issues of a list: each issue with its multiplicity.
IssueBag(issues) ==
    [i \in Range(issues) |-> Cardinality({k \in 1..Len(issues) : issues[k] = i})]

SameUpToOrder(x, y) ==
    /\ IssueBag(x.issues) = IssueBag(y.issues)
    /\ x.files_checked = y.files_checked
    /\ x.checks_run = y.checks_run

\* C7: merge(a, b) holds a's issues followed by b's, files_checked is the
\* maximum of the two and checks_run the union; merge is associative and
\* commutative up to the order of the issues.
C7_MergeLaws ==
    merged # None =>
        /\ merged[1].ab.issues = ra.issues \o rb.issues
        /\ merged[1].ab.files_checked = Max(ra.files_checked, rb.files_checked)
        /\ merged[1].ab.files_checked \in {ra.files_checked, rb.files_checked}
        /\ merged[1].ab.checks_run = ra.checks_run \cup rb.checks_run
        /\ SameUpToOrder(merged[1].left, merged[1].right)
        /\ SameUpToOrder(merged[1].ab, merged[1].ba)

\* C7 witness: two operands with different issues, both with one file
\* checked (so that sum and maximum differ), and different checks_run.
C7_Witness ==
    /\ merged # None
    /\ ra.issues # <<>> /\ rb.issues # <<>> /\ ra.issues # rb.issues
    /\ ra.files_checked = 1 /\ rb.files_checked = 1
    /\ ra.checks_run = {"ruff-format"} /\ rb.checks_run = {"ruff-lint"}
    /\ rc.issues # <<>>

(***************************************************************************)
(* Claims about the hook's per-file state and its messages (Spec)          *)
(***************************************************************************)
\* The event just handled ran the checks and updated a file's state.
Checked == last_event # None /\ last_event[1].ran # None

\* The file of the event just handled, the updates of it so far, the number
\* of them, and the one before the latest.
CheckedFile == last_event[1].ran[1].abs_path
CheckedLog == update_log[CheckedFile]
CheckedTimes == Len(CheckedLog)
Preceding == CheckedLog[CheckedTimes - 1]

\* C1: for every file, the k-th update of its state returns the counts
\* given to the (k-1)-th update of that file, or (0, 0) when k = 1; after it
\* the file's state holds the counts last given and check_count = k.  A
\* file never checked has no state.
C1_UpdateReturnsPrevious ==
    \A f \in TrackedFiles :
        /\ \A k \in 1..Len(update_log[f]) :
              update_log[f][k].returned =
                 IF k = 1 THEN <<0, 0>> ELSE update_log[f][k - 1].given
        /\ IF update_log[f] = <<>> THEN f \notin DOMAIN file_states
           ELSE /\ f \in DOMAIN file_states
                /\ file_states[f] =
                     [error_count |-> update_log[f][Len(update_log[f])].given[1],
                      warning_count |-> update_log[f][Len(update_log[f])].given[2],
                      check_count |-> Len(update_log[f])]

\* C1: a file updated with (2, 1) and then with (0, 0): the second update
\* returned (2, 1) and left check_count = 2.
C1_Witness ==
    /\ Len(update_log["/w/a.py"]) = 2
    /\ update_log["/w/a.py"][1].given = <<2, 1>>
    /\ update_log["/w/a.py"][2].given = <<0, 0>>
    /\ update_log["/w/a.py"][2].returned = <<2, 1>>
    /\ file_states["/w/a.py"].check_count = 2

\* C2: a repeat check of a file whose result is not clean and whose error
\* and warning counts equal those recorded by the preceding check of the
\* file returns a plain continue without a user message at verbosity
\* minimal or normal, and a user message at verbosity detailed; the first
\* check of a file with a result that is not clean always returns a user
\* message.
C2_RedundantMessageSuppressed ==
    (Checked /\ ~clean(last_event[1].ran[1].checked)) =>
        /\ (CheckedTimes > 1 /\ last_event[1].ran[1].given = Preceding.given) =>
              IF hooks.verbosity \in {"minimal", "normal"}
              THEN hook_result = Some(Continue)
              ELSE hook_result[1].user_message # None
        /\ CheckedTimes = 1 => hook_result[1].user_message # None

\* C2: two checks of one file in a row found one error and no warning, at
\* normal verbosity, and the second returned no user message.
C2_Witness ==
    /\ Checked
    /\ hooks.verbosity = "normal"
    /\ CheckedTimes = 2
    /\ Preceding.given = <<1, 0>>
    /\ last_event[1].ran[1].given = <<1, 0>>
    /\ hook_result = Some(Continue)

\* The two forms of the message of a clean result.
CleanMessage(display_path) == <<ICONS("clean"), " ", display_path, ": clean">>
ProgressMessage(display_path, n) ==
    <<ICONS("clean"), " ", display_path, ": clean (was ">> \o Str(n) \o <<" issues)">>

\* C3: the message of a clean result is 'clean (was N issues)', N being the
\* errors plus warnings of the preceding check of the file, exactly when the
\* file was checked before and that preceding check reported issues; it is
\* the plain 'clean' otherwise; its level is info either way.
C3_CleanMessageForm ==
    (Checked /\ clean(last_event[1].ran[1].checked) /\ hooks.show_clean) =>
        /\ hook_result[1].user_message_level = Some("info")
        /\ hook_result[1].user_message =
             Some(IF CheckedTimes > 1 /\ Preceding.issues > 0
                  THEN ProgressMessage(
                         _get_relative_path(FilePathOf(last_event[1].data.tool_input)),
                         Preceding.given[1] + Preceding.given[2])
                  ELSE CleanMessage(
                         _get_relative_path(FilePathOf(last_event[1].data.tool_input))))

(***************************************************************************)
(* Claims about the command line process (SpecCli)                         *)
(***************************************************************************)
\* C6: the process exits with 0 when the check of the given paths found no
\* issues, 1 when it found warnings but no errors and 2 when it found at
\* least one error, for every combination of the flags.
C6_ExitStatusOfFindings ==
    exit_status # None =>
        /\ clean(found[1]) => exit_status[1] = 0
        /\ (error_count(found[1]) = 0 /\ warning_count(found[1]) > 0)
              => exit_status[1] = 1
        /\ error_count(found[1]) > 0 => exit_status[1] = 2

(***************************************************************************)
(* Claims about check_files and its runners (SpecChecker)                  *)
(***************************************************************************)
\* In scope, as the claims put it: a directory, or a suffix .py or .pyi.
ClaimedInScope(path) == path \in Dirs \/ suffix(path) \in {".py", ".pyi"}

GivenInScope == SelectSeq(given[1].paths, ClaimedInScope)
GivenSkipped == SelectSeq(given[1].paths, LAMBDA q : ~ClaimedInScope(q))

IsSentinel(i, n) ==
    /\ i.code = "NON-PYTHON"
    /\ i.severity = INFO
    /\ \E k \in 1..Len(i.message) :
          /\ i.message[k] = "Skipped "
          /\ SubSeq(i.message, k + 1, k + Len(Str(n))) = Str(n)
          /\ i.message[k + Len(Str(n)) + 1] = " non-Python file(s): "

\* C8: when paths are given and none of them is in scope, check_files returns
\* exactly one issue, the info NON-PYTHON sentinel naming the number of
\* skipped files, with checks_run empty and files_checked 0, and calls no
\* runner whatever the config enables.
C8_NothingInScope ==
    (given # None /\ given[1].paths # <<>> /\ GivenInScope = <<>>) =>
        /\ Len(check_result[1].issues) = 1
        /\ IsSentinel(check_result[1].issues[1], Len(given[1].paths))
        /\ check_result[1].checks_run = {}
        /\ check_result[1].files_checked = 0
        /\ runner_calls = <<>>

\* C8 witness: only b.ts was given, with every runner enabled.
C8_Witness ==
    /\ given # None
    /\ given[1].paths = <<"b.ts">>
    /\ \A k \in DOMAIN checker_config : checker_config[k]
    /\ check_result # None

EnabledRunners ==
    (IF checker_config.enable_ruff_format THEN <<"ruff-format">> ELSE <<>>)
      \o (IF checker_config.enable_ruff_lint THEN <<"ruff-lint">> ELSE <<>>)
      \o (IF checker_config.enable_pyright THEN <<"pyright">> ELSE <<>>)
      \o (IF checker_config.enable_stub_check THEN <<"stub-check">> ELSE <<>>)

\* C9: when some but not all given paths are out of scope, every enabled
\* runner is called on exactly the in-scope paths, and the result holds
\* exactly one NON-PYTHON info sentinel, before every runner's issues, whose
\* message gives the number of skipped paths.
C9_SomeOutOfScope ==
    (given # None /\ GivenInScope # <<>> /\ GivenSkipped # <<>>) =>
        /\ [k \in 1..Len(runner_calls) |-> runner_calls[k].runner] = EnabledRunners
        /\ \A k \in 1..Len(runner_calls) : runner_calls[k].paths = GivenInScope
        /\ Len(check_result[1].issues) >= 1
        /\ IsSentinel(check_result[1].issues[1], Len(GivenSkipped))
        /\ \A k \in 2..Len(check_result[1].issues) :
              check_result[1].issues[k].code # "NON-PYTHON"
        /\ SubSeq(check_result[1].issues, 2, Len(check_result[1].issues))
             = Flatten([k \in 1..Len(runner_calls) |-> runner_calls[k].returned.issues])

\* C9 witness: a.py, b.ts and the directory c were given, and a runner
\* reported issues.
C9_Witness ==
    /\ given # None
    /\ given[1].paths = <<"a.py", "b.ts", "c">>
    /\ Len(runner_calls) = 4
    /\ Len(check_result[1].issues) >= 3

ExternalRunners == {"ruff-format", "ruff-lint", "pyright"}

\* The executable behind a runner cannot be located or launched.
Unavailable(runner) ==
    \/ host.interp = "missing"
    \/ runner \in {"ruff-format", "ruff-lint"} /\ ~host.ruff
    \/ runner = "pyright" /\ ~host.pyright

\* C10: a format, lint or type-check runner whose executable cannot be
\* located or launched returns exactly one issue, of severity error with
\* code TOOL-NOT-FOUND, and its checks_run holds the runner's name.
C10_ToolNotFound ==
    \A k \in 1..Len(runner_calls) :
        (runner_calls[k].runner \in ExternalRunners /\ Unavailable(runner_calls[k].runner)) =>
            /\ Len(runner_calls[k].returned.issues) = 1
            /\ runner_calls[k].returned.issues[1].severity = ERROR
            /\ runner_calls[k].returned.issues[1].code = "TOOL-NOT-FOUND"
            /\ runner_calls[k].runner \in runner_calls[k].returned.checks_run

(***************************************************************************)
(* Claims about the lint and type-check runners (SpecRunner)               *)
(***************************************************************************)
\* The runner of the call has returned or raised, after its tool ran.
RunnerDone ==
    /\ fn_args # None /\ fn_result # None
    /\ "runner" \in DOMAIN fn_args[1]
    /\ fn_args[1].env.interp = "ok"
    /\ fn_args[1].env[IF fn_args[1].runner = "pyright" THEN "pyright" ELSE "ruff"]

\* The tool's stdout is something, but not the structure the runner expects:
\* for ruff a list of objects, for pyright an object whose generalDiagnostics
\* is a list of objects.
Unexpected(runner, stdout) ==
    \/ stdout.kind = "text"
    \/ /\ stdout.kind = "json"
       /\ IF runner = "ruff-lint"
          THEN \/ stdout.shape # "list"
               \/ \E k \in 1..Len(stdout.value) : ~IsObject(stdout.value[k])
          ELSE \/ stdout.shape # "dict"
               \/ "generalDiagnostics" \notin DOMAIN stdout.value
               \/ \E k \in 1..Len(stdout.value.generalDiagnostics) :
                      ~IsObject(stdout.value.generalDiagnostics[k])

\* C11: when the tool's stdout is not the expected machine-readable
\* structure (not parseable, or parseable but of another shape), the lint
\* runner and the type-check runner raise nothing and return no issue, with
\* their own name in checks_run.
C11_MalformedOutputSwallowed ==
    (RunnerDone /\ Unexpected(fn_args[1].runner, fn_args[1].toolrun.stdout)) =>
        /\ ~IsRaise(fn_result[1])
        /\ fn_result[1].issues = <<>>
        /\ fn_args[1].runner \in fn_result[1].checks_run

\* C12: every diagnostic pyright reports at zero-based (line, character)
\* becomes, in order, an Issue at line + 1 and column = character + 1, and
\* the severities error, warning and information become ERROR, WARNING, INFO.
C12_PyrightPositions ==
    (/\ RunnerDone /\ fn_args[1].runner = "pyright"
     /\ fn_args[1].toolrun.stdout.kind = "json"
     /\ ~Unexpected("pyright", fn_args[1].toolrun.stdout)) =>
        LET diags == fn_args[1].toolrun.stdout.value.generalDiagnostics
        IN /\ ~IsRaise(fn_result[1])
           /\ Len(fn_result[1].issues) = Len(diags)
           /\ \A k \in 1..Len(diags) :
                 /\ fn_result[1].issues[k].line = diags[k].range.start.line + 1
                 /\ fn_result[1].issues[k].column = diags[k].range.start.character + 1
                 /\ fn_result[1].issues[k].severity =
                      CASE diags[k].severity = "error" -> ERROR
                        [] diags[k].severity = "warning" -> WARNING
                        [] diags[k].severity = "information" -> INFO

\* C12: pyright reported a warning at (9, 4) and an error at (0, 0), and the
\* runner returned a warning at 10:5 followed by an error at 1:1.
C12_Witness ==
    /\ RunnerDone /\ fn_args[1].runner = "pyright"
    /\ ~IsRaise(fn_result[1])
    /\ Len(fn_result[1].issues) = 2
    /\ fn_result[1].issues[1].line = 10 /\ fn_result[1].issues[1].column = 5
    /\ fn_result[1].issues[1].severity = WARNING
    /\ fn_result[1].issues[2].line = 1 /\ fn_result[1].issues[2].column = 1
    /\ fn_result[1].issues[2].severity = ERROR

(***************************************************************************)
(* Claims about the stub scanner (SpecStubs)                               *)
(***************************************************************************)
\* The file of the call has been scanned.
Scanned == fn_args # None /\ fn_result # None /\ "lines" \in DOMAIN fn_args[1]

AbstractMarker(line) ==
    Contains(line, "@abstractmethod") \/ Contains(line, "@abc.abstractmethod")

\* One of the three lines immediately before line n carries the marker.
MarkerAbove(lines, n) ==
    \E i \in 1..Len(lines) : n - 3 <= i /\ i < n /\ AbstractMarker(lines[i])

\* The issues reported for line n.
IssuesAt(n) == SelectSeq(fn_result[1], LAMBDA i : i.line = n)

\* C13: in a file whose path does not contain 'test', a line matching the
\* NotImplementedError pattern is not flagged when one of the three lines
\* immediately before it carries an abstract-method marker, and is flagged
\* with exactly one warning-severity STUB issue when none of them does.
C13_AbstractMethodException ==
    (Scanned /\ ~Contains(fn_args[1].file_path, "test")) =>
        \A n \in 1..Len(fn_args[1].lines) :
            re_search("raise\\s+NotImplementedError\\b", fn_args[1].lines[n]) =>
                IF MarkerAbove(fn_args[1].lines, n)
                THEN IssuesAt(n) = <<>>
                ELSE /\ Len(IssuesAt(n)) = 1
                     /\ IssuesAt(n)[1].code = "STUB"
                     /\ IssuesAt(n)[1].severity = WARNING

(***************************************************************************)
(* Claims about the hook's level filter (SpecFilter)                       *)
(***************************************************************************)
\* The call is one of _filter_by_level, and it has returned.
Filtered ==
    fn_args # None /\ "config" \in DOMAIN fn_args[1] /\ Len(fn_result) >= 1

\* The severities the claim has retained at a report level; "hint" stands
\* for every severity that is not error, warning or info.
Retained(config) ==
    IF "report_level" \in DOMAIN config /\ config.report_level = "error"
    THEN {ERROR, "hint"}
    ELSE IF "report_level" \in DOMAIN config /\ config.report_level = "info"
    THEN {ERROR, WARNING, INFO, "hint"}
    ELSE {ERROR, WARNING, "hint"}

\* C14: the level filter returns, in their original order, exactly the
\* issues whose severity ranks at or above the report level in urgency
\* (error 0, warning 1, info 2); an unrecognized severity is always
\* retained, and a missing or unrecognized report level acts as warning.
C14_FilterByRank ==
    Filtered =>
        fn_result[1] = SelectSeq(fn_args[1].issues,
                                 LAMBDA i : i.severity \in Retained(fn_args[1].config))

\* C14: with no report level configured, a list holding a warning, an info
\* and an unrecognized severity was filtered: the info issue alone is gone.
C14_Witness ==
    /\ Filtered
    /\ fn_args[1].config = <<>>
    /\ [k \in 1..Len(fn_args[1].issues) |-> fn_args[1].issues[k].severity]
         = <<INFO, "hint", WARNING>>
    /\ [k \in 1..Len(fn_result[1]) |-> fn_result[1][k].line] = <<2, 3>>

\* C15: filtering the filtered list again at the same level returns it
\* unchanged.
C15_FilterIdempotent ==
    (fn_args # None /\ "config" \in DOMAIN fn_args[1] /\ Len(fn_result) = 2) =>
        fn_result[2] = fn_result[1]

\* C15: a list that lost an issue to the first filtering, and kept one, was
\* filtered a second time.
C15_Witness ==
    /\ fn_args # None /\ "config" \in DOMAIN fn_args[1]
    /\ Len(fn_result) = 2
    /\ fn_result[1] # <<>>
    /\ Len(fn_result[1]) < Len(fn_args[1].issues)

(***************************************************************************)
(* Claims about the results of handle_tool_post (Spec)                     *)
(***************************************************************************)
\* The event is one the claim calls a pass-through: the hook is disabled,
\* the tool is not a write tool, there is no file path, no file pattern
\* matches the path, or the file does not exist.
PassThroughEvent(self, data) ==
    \/ ~self.enabled
    \/ "tool_name" \notin DOMAIN data
    \/ data.tool_name \notin {"write_file", "edit_file", "Write", "Edit", "MultiEdit"}
    \/ "tool_input" \notin DOMAIN data
    \/ FilePathOf(data.tool_input) = ""
    \/ ~_matches_patterns(self, FilePathOf(data.tool_input))
    \/ ~exists(FilePathOf(data.tool_input))

\* C16: handling a pass-through event returns action continue with no user
\* message and no context payload, runs no check, and leaves the file-state
\* map as it was.
C16_PassThrough ==
    [][(last_event' # None /\ PassThroughEvent(hooks, last_event'[1].data)) =>
          /\ hook_result'[1].action = "continue"
          /\ hook_result'[1].user_message = None
          /\ hook_result'[1].user_message_level = None
          /\ hook_result'[1].context_injection = None
          /\ last_event'[1].ran = None
          /\ update_log' = update_log
          /\ file_states' = file_states]_vars

\* C16: after a check of a.py found issues, a Read of a.py was handled: the
\* result is a bare continue and the state of a.py is still there.
C16_Witness ==
    /\ last_event # None
    /\ last_event[1].data.tool_name = "Read"
    /\ hook_result = Some(Continue)
    /\ "/w/a.py" \in DOMAIN file_states
    /\ file_states["/w/a.py"].check_count = 1
    /\ file_states["/w/a.py"].error_count = 2

\* C17: every result has action continue or inject_context; inject_context
\* is returned only for a filtered result that is not clean with auto_inject
\* on, and then carries a context payload, the role system and a user
\* message with its level; a continue result carries no context payload.
C17_ResultShape ==
    hook_result # None =>
        /\ hook_result[1].action \in {"continue", "inject_context"}
        /\ hook_result[1].action = "inject_context" =>
              /\ Checked
              /\ ~clean(last_event[1].ran[1].checked)
              /\ hooks.auto_inject
              /\ hook_result[1].context_injection # None
              /\ hook_result[1].context_injection_role = Some("system")
              /\ hook_result[1].user_message # None
              /\ hook_result[1].user_message_level \in {Some("warning"), Some("error")}
        /\ hook_result[1].action = "continue" =>
              /\ hook_result[1].context_injection = None
              /\ hook_result[1].context_injection_role = None

\* C17: a check that found issues returned inject_context.
C17_Witness ==
    /\ Checked
    /\ hook_result[1].action = "inject_context"
    /\ hook_result[1].context_injection_role = Some("system")

\* What the handler returns for the check just made when its verbosity is v
\* and everything else is as it was: the same filtered result, the same
\* file state (state updates do not look at the verbosity).
OutcomeAt(v) ==
    LET self == [hooks EXCEPT !.verbosity = v]
        checked == last_event[1].ran[1].checked
        display_path == _get_relative_path(FilePathOf(last_event[1].data.tool_input))
        prev == last_event[1].ran[1].returned
    IN Outcome(self, checked, display_path, file_states[CheckedFile], prev,
               _format_user_message(self, checked, display_path,
                                    file_states[CheckedFile], prev[1], prev[2]))

\* The digest of the claim: a header, the first 10 issues as
\* 'file:line:col: [code] message', and a trailer counting the rest.
Digest(checked, display_path) ==
    JoinParts(
        << <<"Python check found issues in ", display_path, ":">> >>
          \o [k \in 1..(IF Len(checked.issues) < 10 THEN Len(checked.issues) ELSE 10) |->
                <<"- ", checked.issues[k].file, ":">> \o Str(checked.issues[k].line)
                  \o <<":">> \o Str(checked.issues[k].column)
                  \o <<": [", checked.issues[k].code, "] ">> \o checked.issues[k].message]
          \o (IF Len(checked.issues) > 10
              THEN << <<"  ... and ">> \o Str(Len(checked.issues) - 10)
                        \o <<" more issues">> >>
              ELSE <<>>),
        "\n")

\* A check that is not clean was just made by a hook with auto_inject on.
Injecting ==
    Checked /\ hooks.auto_inject /\ ~clean(last_event[1].ran[1].checked)

\* The check just made repeats the counts of the one before it.
SameCountsAsBefore ==
    CheckedTimes > 1 /\ last_event[1].ran[1].given = last_event[1].ran[1].returned

\* C18, as stated: for each check that is not clean, with auto_inject on,
\* the hook produces the same digest at verbosity minimal, normal and
\* detailed: the header, the first 10 issues and the trailer.
C18_DigestAtEveryVerbosity ==
    Injecting =>
        \A v \in {"minimal", "normal", "detailed"} :
            OutcomeAt(v).context_injection =
                Some(Digest(last_event[1].ran[1].checked,
                            _get_relative_path(FilePathOf(last_event[1].data.tool_input))))

\* C18, amended: whenever a digest is produced it is that same digest at
\* every verbosity; but a repeat check with unchanged error and warning
\* counts produces no digest at minimal and normal verbosity, and produces
\* it at detailed.
C18_DigestUnlessSuppressed ==
    Injecting =>
        /\ OutcomeAt(hooks.verbosity) = hook_result[1]
        /\ \A v \in {"minimal", "normal", "detailed"} :
              OutcomeAt(v).context_injection =
                 IF SameCountsAsBefore /\ v # "detailed" THEN None
                 ELSE Some(Digest(last_event[1].ran[1].checked,
                                  _get_relative_path(FilePathOf(last_event[1].data.tool_input))))

\* C18: a first check with eleven errors was given the digest with ten
\* issues and a trailer.
C18_Witness ==
    /\ Injecting
    /\ CheckedTimes = 1
    /\ Len(last_event[1].ran[1].checked.issues) = 11
    /\ hook_result[1].context_injection # None
    /\ OutcomeAt("minimal").context_injection = OutcomeAt("detailed").context_injection

ContentChecked == fn_result # None /\ "outcome" \in DOMAIN fn_result[1]

\* C20: once check_content is over (it returned, check_files raised, or
\* writing the content failed) no scratch file is left; the scratch file was
\* there when check_files was called; and the issues check_files reported
\* against the scratch path come back under the caller's filename, the rest
\* as they were.
C20_ScratchFileScoped ==
    ContentChecked =>
        LET r == fn_result[1]
        IN /\ scratch_files = {}
           /\ r.aggregator # None => temp_path \in r.aggregator[1].present
           /\ ~IsRaise(r.outcome) =>
                 LET raw == r.aggregator[1].returned
                 IN /\ Len(r.outcome.issues) = Len(raw.issues)
                    /\ \A k \in 1..Len(raw.issues) :
                          r.outcome.issues[k] =
                             IF raw.issues[k].file = temp_path
                             THEN [raw.issues[k] EXCEPT !.file = fn_args[1].filename]
                             ELSE raw.issues[k]

(***************************************************************************)
(* load_config (SpecConfig).                                               *)
(***************************************************************************)
ConfigLoaded == fn_result # None /\ "loaded" \in DOMAIN fn_result[1]

EnvVarOf(key) ==
    CASE key = "enable_pyright" -> "AMPLIFIER_PYTHON_ENABLE_PYRIGHT"
      [] key = "fail_on_warning" -> "AMPLIFIER_PYTHON_FAIL_ON_WARNING"

\* The value the environment supplies for key: None, Some(TRUE) or Some(FALSE).
EnvSupplies(environ, key) ==
    IF EnvVarOf(key) \notin DOMAIN environ THEN None
    ELSE IF environ[EnvVarOf(key)] \in {"TRUE", "1", "yes"} THEN Some(TRUE)
    ELSE IF environ[EnvVarOf(key)] \in {"No", "0", "false"} THEN Some(FALSE)
    ELSE None

\* The section of a file that can be read and parsed and holds one; an
\* unreadable or malformed file supplies nothing.
FileSupplies(pyproject, key) ==
    LET doc == pyproject.doc
    IN IF /\ pyproject.state = "toml"
          /\ "tool" \in DOMAIN doc
          /\ IsTable(doc["tool"])
          /\ "amplifier-python-dev" \in DOMAIN doc["tool"]
          /\ IsTable(doc["tool"]["amplifier-python-dev"])
          /\ key \in DOMAIN doc["tool"]["amplifier-python-dev"]
       THEN Some(doc["tool"]["amplifier-python-dev"][key])
       ELSE None

BuiltIn(key) == key = "enable_pyright"

Resolved(args, key) ==
    IF key \in DOMAIN args.overrides THEN args.overrides[key]
    ELSE IF EnvSupplies(args.environ, key) # None THEN EnvSupplies(args.environ, key)[1]
    ELSE IF FileSupplies(args.pyproject, key) # None THEN FileSupplies(args.pyproject, key)[1]
    ELSE BuiltIn(key)

\* C21: load_config does not raise, and each boolean setting it returns is
\* the value of the highest source that supplies one: overrides, then a
\* recognised environment value, then the file's section, then the default.
C21_Precedence ==
    ConfigLoaded =>
        /\ ~IsRaise(fn_result[1].loaded)
        /\ \A key \in {"enable_pyright", "fail_on_warning"} :
              fn_result[1].loaded[key] = Resolved(fn_args[1], key)

(***************************************************************************)
(* The message of a result with issues (Spec).                             *)
(***************************************************************************)
\* The first line of a message: what _format_user_message returned.
RECURSIVE FirstLine(_)
FirstLine(message) ==
    IF message = <<>> \/ Head(message) = "\n" THEN <<>>
    ELSE <<Head(message)>> \o FirstLine(Tail(message))

LastChecked == last_event[1].ran[1].checked
LastDisplayPath == _get_relative_path(FilePathOf(last_event[1].data.tool_input))
Dirty == Checked /\ ~clean(LastChecked) /\ hook_result[1].user_message # None

\* errors + warnings of the check just made and of the one before it
CurrTotal == last_event[1].ran[1].given[1] + last_event[1].ran[1].given[2]
PrevTotal == Preceding.given[1] + Preceding.given[2]

\* C22: the message of a result with issues is, at verbosity minimal, the
\* icon, the path and the number of issues and nothing else; at normal and
\* detailed its first line is the icon, the path and the category summary,
\* followed by ' (was N)', N the errors plus warnings of the preceding check
\* of the file, exactly when the file was checked before and the errors plus
\* warnings are now fewer than N.
C22_DirtyMessageForm ==
    Dirty =>
        LET message == hook_result[1].user_message[1]
            categories == _categorize_issues(LastChecked.issues)
            start == <<_get_severity_icon(LastChecked, categories), " ",
                       LastDisplayPath, ": ">>
            total == Len(LastChecked.issues)
        IN IF hooks.verbosity = "minimal"
           THEN message = start \o Str(total) \o <<" issue">>
                            \o (IF total # 1 THEN <<"s">> ELSE <<>>)
           ELSE FirstLine(message) =
                   start \o _format_category_summary(categories)
                     \o (IF CheckedTimes > 1 /\ CurrTotal < PrevTotal
                         THEN <<" (was ">> \o Str(PrevTotal) \o <<")">>
                         ELSE <<>>)

\* C22: at normal verbosity a file found with two errors and a warning is
\* found with one error on its next check: the first line ends ' (was 3)'.
C22_Witness ==
    /\ Dirty
    /\ hooks.verbosity = "normal"
    /\ CheckedTimes = 2
    /\ Preceding.given = <<2, 1>>
    /\ last_event[1].ran[1].given = <<1, 0>>
    /\ \E line \in {FirstLine(hook_result[1].user_message[1])} :
          SubSeq(line, Len(line) - 2, Len(line)) = <<" (was ", "3", ")">>

(***************************************************************************)
(* The runners of one check_files call and its file count (SpecChecker).   *)
(***************************************************************************)
\* check_files was called and at least one path is in scope; with no path
\* given the working directory is checked.
SomeInScope == given # None /\ (given[1].paths = <<>> \/ GivenInScope # <<>>)

RunnerIssues == Flatten([k \in 1..Len(runner_calls) |-> runner_calls[k].returned.issues])

\* C23: with a path in scope the runners called are exactly the enabled
\* ones, in the order format, lint, type, stub; the result's issues are the
\* runners' issues in the order of the calls (after the NON-PYTHON sentinel
\* when a path was skipped), and checks_run is the set of the enabled names.
C23_RunnersInOrder ==
    SomeInScope =>
        /\ [k \in 1..Len(runner_calls) |-> runner_calls[k].runner] = EnabledRunners
        /\ check_result[1].issues =
             (IF GivenSkipped # <<>> THEN <<check_result[1].issues[1]>> ELSE <<>>)
               \o RunnerIssues
        /\ check_result[1].checks_run = {EnabledRunners[k] : k \in 1..Len(EnabledRunners)}

\* C23: all four runners ran on a.py and each reported an issue.
C23_Witness ==
    /\ SomeInScope
    /\ given[1].paths = <<"a.py">>
    /\ Len(runner_calls) = 4
    /\ \A k \in 1..4 : Len(runner_calls[k].returned.issues) = 1
    /\ [k \in 1..4 |-> check_result[1].issues[k].source]
         = <<"ruff-format", "ruff-lint", "pyright", "stub-check">>

\* The .py and .pyi files below a directory of the file system.
EligibleUnder(dir) ==
    { f \in RegularFiles :
        /\ suffix(f) \in {".py", ".pyi"}
        /\ dir = "." \/ (dir = "c" /\ f \in {"c/m.py", "c/s.pyi"}) }

RECURSIVE EligibleCount(_)
EligibleCount(paths) ==
    IF paths = <<>> THEN 0
    ELSE (IF Head(paths) \in Dirs THEN Cardinality(EligibleUnder(Head(paths))) ELSE 1)
           + EligibleCount(Tail(paths))

\* C24: with a path in scope, files_checked is the number of eligible files
\* among the in-scope paths: one for each .py or .pyi file given directly and
\* one for each .py or .pyi file below each directory given, whichever
\* runners are enabled.
C24_FilesChecked ==
    SomeInScope =>
        check_result[1].files_checked =
            EligibleCount(IF given[1].paths = <<>> THEN <<cwd>> ELSE GivenInScope)

(***************************************************************************)
(* Buckets, icon and level of a message (SpecMessage).                     *)
(***************************************************************************)
Formatted == fn_result # None /\ "icon" \in DOMAIN fn_result[1]
Buckets == fn_result[1].categories

\* C25: the icon is the clean icon for a clean result; else the stub icon
\* when the stub bucket is not empty and the type-error and lint-error
\* buckets are; else the error icon when the result has an error; else the
\* minor icon.
C25_IconPriority ==
    Formatted =>
        fn_result[1].icon =
            CASE fn_args[1].checked.issues = <<>> -> "\\u2713"
              [] OTHER ->
                   IF /\ Len(Buckets.stubs) > 0
                      /\ Len(Buckets.type_errors) = 0
                      /\ Len(Buckets.lint_errors) = 0
                   THEN "\\u25d1"
                   ELSE IF \E k \in 1..Len(fn_args[1].checked.issues) :
                              fn_args[1].checked.issues[k].severity = ERROR
                   THEN "\\u25cf"
                   ELSE "\\u25d0"

\* C25: a result with a type error and a stub gets the error icon: the stub
\* rule comes first and does not apply.
C25_Witness ==
    /\ Formatted
    /\ Len(Buckets.stubs) = 1
    /\ Len(Buckets.type_errors) = 1
    /\ Buckets.type_errors[1].severity = ERROR
    /\ fn_result[1].icon = "\\u25cf"

\* The bucket of one issue, by the precedence of the claim.
BucketOf(issue) ==
    IF issue.source = "pyright" THEN "type_errors"
    ELSE IF issue.source = "stub-check" THEN "stubs"
    ELSE IF issue.source = "ruff-format" THEN "style_issues"
    ELSE IF issue.severity = ERROR THEN "lint_errors"
    ELSE "style_issues"

\* C26: the four buckets are the issues of the result, each in the bucket
\* its source and severity give it and in no other, in the result's order;
\* their sizes add up to the number of issues.
C26_OneBucketEach ==
    Formatted =>
        /\ DOMAIN Buckets = {"type_errors", "lint_errors", "style_issues", "stubs"}
        /\ \A b \in DOMAIN Buckets :
              Buckets[b] = SelectSeq(fn_args[1].checked.issues,
                                     LAMBDA i : BucketOf(i) = b)
        /\ Len(Buckets.type_errors) + Len(Buckets.lint_errors)
             + Len(Buckets.style_issues) + Len(Buckets.stubs)
             = Len(fn_args[1].checked.issues)

\* C26: a result whose four buckets are all filled, the style bucket with a
\* format issue and a lint warning.
C26_Witness ==
    /\ Formatted
    /\ \A b \in DOMAIN Buckets : Len(Buckets[b]) > 0
    /\ \E k \in 1..Len(Buckets.style_issues) : Buckets.style_issues[k].source = "ruff-format"
    /\ \E k \in 1..Len(Buckets.style_issues) : Buckets.style_issues[k].source = "ruff-lint"

\* C30: the level is error exactly when the icon is the error icon, and
\* info exactly when the icon is the clean icon.
C30_IconAgreesWithLevel ==
    Formatted =>
        /\ fn_result[1].level = "error" <=> fn_result[1].icon = "\\u25cf"
        /\ fn_result[1].level = "info" <=> fn_result[1].icon = "\\u2713"

(***************************************************************************)
(* The detail block of a message (Spec).                                   *)
(***************************************************************************)
\* Issue a is listed before issue b: an error before a non-error, and the
\* lower line first among errors and among non-errors.
ListedBefore(a, b) ==
    \/ a.severity = ERROR /\ b.severity # ERROR
    \/ (a.severity = ERROR <=> b.severity = ERROR) /\ a.line < b.line

\* The place of the issue at position i in the listing; issues that neither
\* rule separates keep the order of the result.
PlaceOf(issues, i) ==
    1 + Cardinality({ j \in 1..Len(issues) :
                        \/ ListedBefore(issues[j], issues[i])
                        \/ ~ListedBefore(issues[i], issues[j]) /\ j < i })

Listing(issues) ==
    [r \in 1..Len(issues) |-> issues[CHOOSE i \in 1..Len(issues) : PlaceOf(issues, i) = r]]

\* The detail block of the claim: the first 5 of the listing, and a line
\* with the number of the others when there are more than 5.
ClaimedDetails(issues) ==
    JoinParts([k \in 1..Min(5, Len(issues)) |-> DetailLine(Listing(issues)[k])]
                \o (IF Len(issues) > 5
                    THEN << <<"\\u2502 ... and ">> \o Str(Len(issues) - 5) \o <<" more">> >>
                    ELSE <<>>),
              "\n")

\* C27: the message of a result with issues carries the detail block after
\* its first line exactly when the verbosity is detailed, or is normal and
\* the result has an error; the block is the first 5 issues, errors first
\* and by ascending line, and the '... and N more' line, N = issues - 5,
\* when there are more than 5.
C27_DetailBlock ==
    Dirty =>
        LET message == hook_result[1].user_message[1]
            issues == LastChecked.issues
            shown == \/ hooks.verbosity = "detailed"
                     \/ /\ hooks.verbosity = "normal"
                        /\ \E k \in 1..Len(issues) : issues[k].severity = ERROR
        IN message = FirstLine(message)
                       \o (IF shown THEN <<"\n">> \o ClaimedDetails(issues) ELSE <<>>)

\* C27: six errors and five warnings at normal verbosity: the block lists
\* the errors of lines 1, 3, 5, 7 and 9 and ends '... and 6 more'.
C27_Witness ==
    /\ Dirty
    /\ hooks.verbosity = "normal"
    /\ last_event[1].ran[1].given = <<6, 5>>
    /\ \E message \in {hook_result[1].user_message[1]} :
          /\ SubSeq(message, Len(message) - 2, Len(message))
               = <<"\\u2502 ... and ", "6", " more">>
          /\ Len(SelectSeq(message, LAMBDA t : t = "error")) = 5
          /\ Len(SelectSeq(message, LAMBDA t : t = "warn ")) = 0

(***************************************************************************)
(* One state entry for each file, however it is named (SpecSpelled).       *)
(***************************************************************************)
\* The canonical absolute path of the file a path names: a.py by any of its
\* names is /w/a.py.
CanonicalPath(file_path) ==
    IF file_path = "c/m.py" THEN "/w/c/m.py" ELSE "/w/a.py"

EventsNaming(key) == {k \in 1..Len(fn_args) : CanonicalPath(fn_args[k]) = key}

\* C28: the state map has one entry for each file named by an event so far,
\* under the file's canonical absolute path; its check_count is the number
\* of events that named the file, by whichever spelling; and the event just
\* handled was given the counts of the preceding event that named the same
\* file, zeros when it was the first.
C28_OneEntryPerFile ==
    /\ DOMAIN file_states = {CanonicalPath(fn_args[k]) : k \in 1..Len(fn_args)}
    /\ \A key \in DOMAIN file_states :
          file_states[key].check_count = Cardinality(EventsNaming(key))
    /\ Checked =>
          LET key == CanonicalPath(fn_args[Len(fn_args)])
              n == Cardinality(EventsNaming(key))
          IN /\ key \in DOMAIN update_log
             /\ Len(update_log[key]) = n
             /\ last_event[1].ran[1].returned =
                  IF n = 1 THEN <<0, 0>> ELSE update_log[key][n - 1].given

\* C28: a.py was checked under that name with one error, then through the
\* link /l/a.py: one entry, check_count 2, and the second event was given
\* the first one's counts.
C28_Witness ==
    /\ fn_args = <<"a.py", "/l/a.py">>
    /\ DOMAIN file_states = {"/w/a.py"}
    /\ file_states["/w/a.py"].check_count = 2
    /\ update_log["/w/a.py"][1].given = <<1, 0>>
    /\ last_event[1].ran[1].returned = <<1, 0>>

(***************************************************************************)
(* The life of the entries of the file-state map (Spec).                   *)
(***************************************************************************)
\* check_count of path f in a state map, 0 when the map has no entry for it.
CountIn(states, f) == IF f \in DOMAIN states THEN states[f].check_count ELSE 0

\* C29: no handled event removes an entry of the file-state map or lowers a
\* check_count; an event that runs a check of a file raises that file's
\* check_count by exactly one, creating the entry with count 1 on the first
\* check, whatever the handler then returns; nothing else changes a count.
C29_EntriesOnlyGrow ==
    [][/\ DOMAIN file_states \subseteq DOMAIN file_states'
       /\ \A f \in DOMAIN file_states' :
             /\ CountIn(file_states', f) >= CountIn(file_states, f)
             /\ CountIn(file_states', f) =
                  CountIn(file_states, f)
                    + (IF /\ last_event' # None
                          /\ last_event'[1].ran # None
                          /\ last_event'[1].ran[1].abs_path = f
                       THEN 1 ELSE 0)
      ]_vars

\* C29: the second check of a file, clean like the first, with show_clean
\* off: the handler returned a bare continue and check_count is 2.
C29_Witness ==
    /\ Checked
    /\ ~hooks.show_clean
    /\ clean(LastChecked)
    /\ hook_result = Some(Continue)
    /\ CheckedTimes = 2
    /\ Preceding.given = <<0, 0>>
    /\ file_states[CheckedFile].check_count = 2

====
